---------------------------- MODULE Spec2Model ----------------------------
(***************************************************************************)
(* Model of the batch dispatch engine of telemetry-ai-ops:                 *)
(*   src/app/services/ai_batcher.py   (class AIBatcher)                    *)
(*   src/app/services/ai_analyzer.py  (class AIAnalyzer)                   *)
(*   src/app/core/telemetry_queue.py  (class TelemetryQueue)               *)
(*   src/app/routes/telemetry.py      (clear_queue, ingest_batch, toggle)  *)
(*   src/app/services/pipeline.py     (telemetry_pipeline and its state)   *)
(*   src/app/main.py                  (lifespan)                           *)
(*                                                                         *)
(* The program runs on one asyncio event loop: a coroutine runs without    *)
(* interruption from one suspension point (an await that really waits) to  *)
(* the next, so each action below is one such uninterrupted run.           *)
(*   - enqueue() and start() never suspend: one action each.               *)
(*   - _flush() takes the buffer lock, which is only ever held by code     *)
(*     that does not suspend, so the lock is always free when asked for    *)
(*     and _flush() runs as part of the action that calls it.              *)
(*   - stop() suspends at "await self._loop_task".                         *)
(*   - _batch_loop() suspends in wait_for(...) and in sleep(0.01).         *)
(*   - a dispatch task suspends at the semaphore, in the classification    *)
(*     call and in the back-off wait between two attempts.                 *)
(***************************************************************************)
EXTENDS Naturals, Sequences, FiniteSets

(* ------------------------------ bounds -------------------------------- *)
\* number of enqueue() calls explored
MaxAccepts == 2
\* number of flush loops start() may create
MaxLoops == 2
\* longest batch handed to AIAnalyzer.run_ai_analysis_batch
MaxBatchLen == 2
\* number of packets put into the TelemetryQueue
MaxQueueOps == 4
\* longest list of records of one POST /ingest/batch
MaxIngest == 2

(* ----------------------- constructor arguments ------------------------ *)
\* batch_size and max_concurrency are fixed at construction; the model is
\* checked for each of these values (the tests build batchers with
\* batch_size=2 and max_concurrency=1; max_concurrency defaults to 2)
BatchSizes == {1, 2}
Concurrencies == {1, 2}

(* ------------------------- program constants -------------------------- *)
\* stop_after_attempt(3)
MaxAttempts == 3
\* wait_exponential(min=1, max=8)
WaitMin == 1
WaitMax == 8
\* the heuristic of run_ai_analysis: osnr >= 30 and ber <= 1e-9.
\* BER values are counted in units of 1e-10, so 1e-9 is 10.
OsnrLimit == 30
BerLimit == 10

(* ------------------------- analyzer inputs ---------------------------- *)
\* metric values around the two thresholds (BER 0 is a present, falsy value)
OsnrValues == {29, 30}
BerValues == {0, 10, 11}

VARIABLES
    batch_size,       \* self.batch_size
    max_concurrency,  \* the value the semaphore was built with
    buffer,           \* self._buffer: sequence of item ids
    flush_event,      \* self._flush_event is set
    running,          \* self._running
    buffer_lock,      \* self._buffer_lock is held
    sem_value,        \* free permits of self._semaphore
    loop_task,        \* self._loop_task: index into loops, 0 for None
    loops,            \* every _batch_loop task ever created
    tasks,            \* every _run_with_semaphore task ever created
    stopPc,           \* per caller: position inside stop()
    stopAwait,        \* per caller: the loop task stop() awaits
    AI_CALLS,         \* Counter ai_calls_total
    AI_ERRORS,        \* Counter ai_errors_total
    QUEQUE_SIZE,      \* Gauge telemetry_batch_queue_size
    accepted,         \* history: number of enqueue() calls so far
    drained,          \* history: value of accepted when the last draining stop() returned
    lastCall,         \* history: the last start()/stop() call and how it went
    a_pc,             \* position of one run_ai_analysis_batch call ("off": none modelled)
    a_batch,          \* its argument: a sequence of telemetry records
    a_results,        \* its local list `results`, returned when a_pc = "returned"
    ai_needed,        \* its local list `ai_needed`
    ai_indices,       \* its local list `ai_indices` (1-based here)
    ext_calls,        \* history: number of calls of _call_external_ai_for_batch
    a_cancel,         \* history: where a CancelledError was raised into the call
    a_answer,         \* history: how the external request ended ("list", "lines", "raised")
    q_items,          \* TelemetryQueue.queue, the deque of routes/telemetry.py
    q_in,             \* history: every packet put into the queue, in order
    q_out,            \* history: every packet dequeue() returned, in order
    last_op,          \* history: the last queue method or route called
    last_ret,         \* history: what it returned: a packet, "None", an HTTP status, an exception
    r_count,          \* history: sum of the "count" fields of the ingest_batch responses
    bg_tasks,         \* history: number of background tasks ingest_batch added
    PIPELINE_RUNNING, \* the module global of services/pipeline.py
    last_set,         \* history: the argument of the last set_pipeline_state call, <<>> if none
    pipelines,        \* every telemetry_pipeline task ever created
    ls_pc,            \* position of lifespan() of main.py
    ls_task           \* pipeline_task of lifespan(): index into pipelines, 0 before line 30

vars == <<batch_size, max_concurrency, buffer, flush_event, buffer_lock, running, sem_value,
          loop_task, loops, tasks, stopPc, stopAwait, AI_CALLS, AI_ERRORS,
          QUEQUE_SIZE, accepted, drained, lastCall,
          a_pc, a_batch, a_results, ai_needed, ai_indices, ext_calls, a_cancel,
          a_answer, q_items, q_in, q_out, last_op, last_ret, r_count, bg_tasks,
          PIPELINE_RUNNING, last_set, pipelines, ls_pc, ls_task>>

\* the state of the batcher
batcherVars == <<batch_size, max_concurrency, buffer, flush_event, buffer_lock, running,
                 sem_value, loop_task, loops, tasks, stopPc, stopAwait, AI_CALLS,
                 AI_ERRORS, QUEQUE_SIZE, accepted, drained, lastCall>>
\* the state of one call of the analyzer
anVars == <<a_pc, a_batch, a_results, ai_needed, ai_indices, ext_calls, a_cancel,
           a_answer>>

\* the state of the TelemetryQueue and of the routes that use it
queueVars == <<q_items, q_in, q_out, last_op, last_ret, r_count, bg_tasks>>

\* what no method of AIBatcher changes: batch_size and the size of the
\* semaphore, fixed by the constructor, and the state of the other
\* components (an analyzer call, the queue and the routes), which are
\* modelled on their own further down
\* the pipeline module and the application lifespan
appVars == <<PIPELINE_RUNNING, last_set, pipelines, ls_pc, ls_task>>

config == <<batch_size, max_concurrency, anVars, queueVars, appVars>>
counters == <<AI_CALLS, AI_ERRORS>>
stopVars == <<stopPc, stopAwait>>

\* The coroutines that call start() and stop(). The application has one: lifespan.
Callers == {"owner", "other"}

(* ------------------------------ helpers ------------------------------- *)
Range(s) == {s[i] : i \in DOMAIN s}

RECURSIVE Pow2(_)
Pow2(n) == IF n = 0 THEN 1 ELSE 2 * Pow2(n - 1)

Min(a, b) == IF a <= b THEN a ELSE b
Max(a, b) == IF a >= b THEN a ELSE b

\* a schedule that starts at 2 s: the exponent is the attempt number itself
WaitExponential_FromTwo(n) == Max(WaitMin, Min(Pow2(n), WaitMax))

\* tenacity wait_exponential(multiplier=1, min=1, max=8), asked after attempt n failed
WaitExponential(n) == Max(WaitMin, Min(Pow2(n - 1), WaitMax))

\* asyncio.Event.set(): the flag is set and every coroutine waiting on it is woken
WakeWaiters(ls) ==
    [l \in DOMAIN ls |->
        IF ls[l].pc = "wait" THEN [ls[l] EXCEPT !.woken = TRUE] ELSE ls[l]]

\* the task _flush() creates for a batch. History fields: by (who flushed),
\* ext ("failed" when the external request of the last attempt failed inside
\* the analyzer), at (where the task was when it was cancelled), sent (the
\* argument of each run_ai_analysis_batch call of the task, in call order).
\* batch is the local list of _flush (a copy of the buffer, line 93) that the
\* task holds for all its attempts
NewTask(batch, by) ==
    [batch |-> batch, by |-> by, pc |-> "pending", attempt |-> 0, calls |-> 0,
     fails |-> 0, out |-> "none", wait |-> 0, ext |-> "none", at |-> "none",
     sent |-> <<>>]

(* ------------------------------- Init --------------------------------- *)
\* AIBatcher.__init__
BatcherInit ==
    /\ batch_size \in BatchSizes
    /\ max_concurrency \in Concurrencies
    /\ buffer = <<>>
    /\ flush_event = FALSE
    /\ buffer_lock = FALSE
    /\ running = FALSE
    /\ sem_value = max_concurrency
    /\ loop_task = 0
    /\ loops = <<>>
    /\ tasks = <<>>
    /\ stopPc = [c \in Callers |-> "idle"]
    /\ stopAwait = [c \in Callers |-> 0]
    /\ AI_CALLS = 0
    /\ AI_ERRORS = 0
    /\ QUEQUE_SIZE = 0
    /\ accepted = 0
    /\ drained = 0
    /\ lastCall = "none"

\* no call of the analyzer is modelled
AnalyzerOff ==
    /\ a_pc = "off"
    /\ a_batch = <<>>
    /\ a_results = <<>>
    /\ ai_needed = <<>>
    /\ ai_indices = <<>>
    /\ ext_calls = 0
    /\ a_cancel = "none"
    /\ a_answer = "none"

\* TelemetryQueue.__init__ (queue = TelemetryQueue() in routes/telemetry.py)
QueueInit ==
    /\ q_items = <<>>
    /\ q_in = <<>>
    /\ q_out = <<>>
    /\ last_op = "none"
    /\ last_ret = "none"
    /\ r_count = 0
    /\ bg_tasks = 0

\* a new batcher; its analyzer is the test double of the unit tests, whose
\* run_ai_analysis_batch returns or raises
\* services/pipeline.py as imported, and lifespan() not yet entered
AppInit ==
    /\ PIPELINE_RUNNING = TRUE
    /\ last_set = <<>>
    /\ pipelines = <<>>
    /\ ls_pc = "off"
    /\ ls_task = 0

Init == BatcherInit /\ AnalyzerOff /\ QueueInit /\ AppInit

(* ------------------------------ _flush -------------------------------- *)
\* _flush() that copies the buffer into the batch and forgets to clear it
Flush_KeepsBuffer(by) ==
    /\ ~buffer_lock
    /\ buffer_lock' = FALSE
    /\ flush_event' = FALSE
    /\ IF buffer = <<>>
       THEN UNCHANGED <<buffer, tasks, QUEQUE_SIZE>>
       ELSE /\ tasks' = Append(tasks, NewTask(buffer, by))
            /\ QUEQUE_SIZE' = 0
            /\ UNCHANGED buffer

\* _flush() without the "if not self._buffer" check: an empty batch is dispatched
Flush_DispatchesEmpty(by) ==
    /\ ~buffer_lock
    /\ buffer_lock' = FALSE
    /\ flush_event' = FALSE
    /\ tasks' = Append(tasks, NewTask(buffer, by))
    /\ buffer' = <<>>
    /\ QUEQUE_SIZE' = 0

\* _flush() that takes one item, the oldest, out of the buffer
Flush_TakesOldest(by) ==
    /\ ~buffer_lock
    /\ buffer_lock' = FALSE
    /\ flush_event' = FALSE
    /\ IF buffer = <<>>
       THEN UNCHANGED <<buffer, tasks, QUEQUE_SIZE>>
       ELSE /\ tasks' = Append(tasks, NewTask(<<Head(buffer)>>, by))
            /\ buffer' = Tail(buffer)
            /\ QUEQUE_SIZE' = 0

\* _flush() that awaits the batch inside the with block: the lock stays
\* held while the batch is dispatched
Flush_DispatchesUnderLock(by) ==
    /\ ~buffer_lock
    /\ flush_event' = FALSE
    /\ IF buffer = <<>>
       THEN /\ buffer_lock' = FALSE
            /\ UNCHANGED <<buffer, tasks, QUEQUE_SIZE>>
       ELSE /\ buffer_lock' = TRUE
            /\ tasks' = Append(tasks, NewTask(buffer, by))
            /\ buffer' = <<>>
            /\ QUEQUE_SIZE' = 0

\* _flush() that takes at most batch_size items and leaves the rest buffered
Flush_KeepsOverflow(by) ==
    /\ ~buffer_lock
    /\ buffer_lock' = FALSE
    /\ flush_event' = FALSE
    /\ IF buffer = <<>>
       THEN UNCHANGED <<buffer, tasks, QUEQUE_SIZE>>
       ELSE /\ tasks' = Append(tasks,
                           NewTask(SubSeq(buffer, 1, Min(batch_size, Len(buffer))), by))
            /\ buffer' = SubSeq(buffer, Min(batch_size, Len(buffer)) + 1, Len(buffer))
            /\ QUEQUE_SIZE' = Len(buffer')

\* AIBatcher._flush, called by `by`: the whole buffer becomes one batch. The
\* buffer lock is only ever held inside _flush, which does not suspend while
\* it holds it: the lock is free when _flush asks for it ("async with" then
\* does not wait) and is released at the end of the with block (line 96),
\* before the dispatch task is created (line 101). enqueue does not take it.
Flush(by) ==
    /\ ~buffer_lock
    /\ buffer_lock' = FALSE
    /\ flush_event' = FALSE
    /\ IF buffer = <<>>
       THEN UNCHANGED <<buffer, tasks, QUEQUE_SIZE>>
       ELSE /\ tasks' = Append(tasks, NewTask(buffer, by))
            /\ buffer' = <<>>
            /\ QUEQUE_SIZE' = 0

\* _flush() awaited directly by a caller that is neither the loop nor stop(),
\* as tests/test_ai_batcher.py does
DirectFlush ==
    /\ Flush("direct")
    /\ UNCHANGED <<config, running, sem_value, loop_task, loops, stopVars, counters,
                   accepted, drained, lastCall>>

\* enqueue() that signals only once the buffer has grown past batch_size
Enqueue_SignalsPastSize ==
    /\ accepted < MaxAccepts
    /\ accepted' = accepted + 1
    /\ buffer' = Append(buffer, accepted + 1)
    /\ QUEQUE_SIZE' = Len(buffer')
    /\ IF Len(buffer') > batch_size
       THEN /\ flush_event' = TRUE
            /\ UNCHANGED buffer_lock
            /\ loops' = WakeWaiters(loops)
       ELSE UNCHANGED <<flush_event, buffer_lock, loops>>
    /\ UNCHANGED <<config, running, sem_value, loop_task, tasks, stopVars,
                   counters, drained, lastCall>>

(* ------------------------------ enqueue ------------------------------- *)
\* enqueue() that runs the flush itself once batch_size is reached
Enqueue_FlushesInline ==
    /\ accepted < MaxAccepts
    /\ accepted' = accepted + 1
    /\ IF Len(buffer) + 1 >= batch_size
       THEN /\ tasks' = Append(tasks, NewTask(Append(buffer, accepted + 1), "signal"))
            /\ buffer' = <<>>
            /\ QUEQUE_SIZE' = 0
            /\ flush_event' = FALSE
            /\ UNCHANGED buffer_lock
       ELSE /\ buffer' = Append(buffer, accepted + 1)
            /\ QUEQUE_SIZE' = Len(buffer')
            /\ UNCHANGED <<tasks, flush_event, buffer_lock>>
    /\ UNCHANGED <<config, running, sem_value, loop_task, loops, stopVars,
                   counters, drained, lastCall>>

\* enqueue() when _flush hands the buffer list itself to the task instead of
\* a copy: the accepted item also lands in the batches still in flight
Enqueue_IntoFlownBatches ==
    /\ accepted < MaxAccepts
    /\ accepted' = accepted + 1
    /\ buffer' = Append(buffer, accepted + 1)
    /\ QUEQUE_SIZE' = Len(buffer')
    /\ tasks' = [t \in DOMAIN tasks |->
                    IF tasks[t].pc # "done"
                    THEN [tasks[t] EXCEPT !.batch = Append(@, accepted + 1)]
                    ELSE tasks[t]]
    /\ IF Len(buffer') >= batch_size
       THEN /\ flush_event' = TRUE
            /\ UNCHANGED buffer_lock
            /\ loops' = WakeWaiters(loops)
       ELSE UNCHANGED <<flush_event, buffer_lock, loops>>
    /\ UNCHANGED <<config, running, sem_value, loop_task, stopVars,
                   counters, drained, lastCall>>

\* enqueue() that buffers only while the batcher runs
Enqueue_DropsWhenStopped ==
    /\ accepted < MaxAccepts
    /\ accepted' = accepted + 1
    /\ buffer' = IF running THEN Append(buffer, accepted + 1) ELSE buffer
    /\ QUEQUE_SIZE' = Len(buffer')
    /\ IF Len(buffer') >= batch_size
       THEN /\ flush_event' = TRUE
            /\ UNCHANGED buffer_lock
            /\ loops' = WakeWaiters(loops)
       ELSE UNCHANGED <<flush_event, buffer_lock, loops>>
    /\ UNCHANGED <<config, running, sem_value, loop_task, tasks, stopVars,
                   counters, drained, lastCall>>

Enqueue ==
    /\ accepted < MaxAccepts
    /\ accepted' = accepted + 1
    /\ buffer' = Append(buffer, accepted + 1)
    /\ QUEQUE_SIZE' = Len(buffer')
    /\ IF Len(buffer') >= batch_size
       THEN /\ flush_event' = TRUE
            /\ UNCHANGED buffer_lock
            /\ loops' = WakeWaiters(loops)
       ELSE UNCHANGED <<flush_event, buffer_lock, loops>>
    /\ UNCHANGED <<config, running, sem_value, loop_task, tasks, stopVars,
                   counters, drained, lastCall>>

\* start() without the "if self._running: return" check
Start_NoRunningCheck(c) ==
    /\ stopPc[c] = "idle"
    /\ Len(loops) < MaxLoops
    /\ running' = TRUE
    /\ loops' = Append(loops, [pc |-> "new", woken |-> FALSE])
    /\ loop_task' = Len(loops) + 1
    /\ lastCall' = IF running THEN "start_noop" ELSE "start"
    /\ UNCHANGED <<config, buffer, flush_event, buffer_lock, sem_value, tasks, stopVars,
                   counters, QUEQUE_SIZE, accepted, drained>>

(* ---------------------------- start / stop ---------------------------- *)
Start(c) ==
    /\ stopPc[c] = "idle"
    /\ running \/ Len(loops) < MaxLoops
    /\ IF running
       THEN /\ lastCall' = "start_noop"
            /\ UNCHANGED <<running, loops, loop_task>>
       ELSE /\ running' = TRUE
            /\ loops' = Append(loops, [pc |-> "new", woken |-> FALSE])
            /\ loop_task' = Len(loops) + 1
            /\ lastCall' = "start"
    /\ UNCHANGED <<config, buffer, flush_event, buffer_lock, sem_value, tasks, stopVars,
                   counters, QUEQUE_SIZE, accepted, drained>>

\* stop() without the "if not self._running: return" check
StopBegin_NoRunningCheck(c) ==
    /\ stopPc[c] = "idle"
    /\ running' = FALSE
    /\ loops' = WakeWaiters(loops)
    /\ IF loop_task # 0 /\ loops[loop_task].pc # "done"
       THEN /\ flush_event' = TRUE
            /\ UNCHANGED buffer_lock
            /\ stopPc' = [stopPc EXCEPT ![c] = "await_loop"]
            /\ stopAwait' = [stopAwait EXCEPT ![c] = loop_task]
            /\ lastCall' = "stop_wait"
            /\ UNCHANGED <<buffer, tasks, QUEQUE_SIZE, drained>>
       ELSE /\ Flush("stop")
            /\ drained' = accepted
            /\ lastCall' = IF running THEN "stop_done" ELSE "stop_noop"
            /\ UNCHANGED stopVars
    /\ UNCHANGED <<config, sem_value, loop_task, counters, accepted>>

\* stop() that only clears the running flag and does not set the flush event
StopBegin_NoWake(c) ==
    /\ stopPc[c] = "idle"
    /\ IF ~running
       THEN /\ lastCall' = "stop_noop"
            /\ UNCHANGED <<running, flush_event, buffer_lock, loops, buffer, tasks, QUEQUE_SIZE,
                           stopVars, drained>>
       ELSE /\ running' = FALSE
            /\ IF loop_task # 0 /\ loops[loop_task].pc # "done"
               THEN /\ stopPc' = [stopPc EXCEPT ![c] = "await_loop"]
                    /\ stopAwait' = [stopAwait EXCEPT ![c] = loop_task]
                    /\ lastCall' = "stop_wait"
                    /\ UNCHANGED <<buffer, tasks, QUEQUE_SIZE, drained, flush_event, buffer_lock,
                                   loops>>
               ELSE /\ Flush("stop")
                    /\ drained' = accepted
                    /\ lastCall' = "stop_done"
                    /\ UNCHANGED <<stopVars, loops>>
    /\ UNCHANGED <<config, sem_value, loop_task, counters, accepted>>

\* stop() up to "await self._loop_task"; through to the end when nothing is awaited
StopBegin(c) ==
    /\ stopPc[c] = "idle"
    /\ IF ~running
       THEN /\ lastCall' = "stop_noop"
            /\ UNCHANGED <<running, flush_event, buffer_lock, loops, buffer, tasks, QUEQUE_SIZE,
                           stopVars, drained>>
       ELSE /\ running' = FALSE
            /\ loops' = WakeWaiters(loops)
            /\ IF loop_task # 0 /\ loops[loop_task].pc # "done"
               THEN /\ flush_event' = TRUE
                    /\ UNCHANGED buffer_lock
                    /\ stopPc' = [stopPc EXCEPT ![c] = "await_loop"]
                    /\ stopAwait' = [stopAwait EXCEPT ![c] = loop_task]
                    /\ lastCall' = "stop_wait"
                    /\ UNCHANGED <<buffer, tasks, QUEQUE_SIZE, drained>>
               ELSE /\ Flush("stop")
                    /\ drained' = accepted
                    /\ lastCall' = "stop_done"
                    /\ UNCHANGED stopVars
    /\ UNCHANGED <<config, sem_value, loop_task, counters, accepted>>

\* stop() that returns once the loop is done, without the final _flush()
StopResume_NoFinalFlush(c) ==
    /\ stopPc[c] = "await_loop"
    /\ loops[stopAwait[c]].pc = "done"
    /\ stopPc' = [stopPc EXCEPT ![c] = "idle"]
    /\ drained' = accepted
    /\ lastCall' = "stop_done"
    /\ UNCHANGED <<config, running, sem_value, loop_task, loops, stopAwait,
                   counters, accepted, buffer, tasks, QUEQUE_SIZE, flush_event, buffer_lock>>

\* stop() that also waits until every dispatch task is done
StopResume_AwaitsDispatch(c) ==
    /\ stopPc[c] = "await_loop"
    /\ loops[stopAwait[c]].pc = "done"
    /\ \A t \in DOMAIN tasks : tasks[t].pc = "done"
    /\ Flush("stop")
    /\ stopPc' = [stopPc EXCEPT ![c] = "idle"]
    /\ drained' = accepted
    /\ lastCall' = "stop_done"
    /\ UNCHANGED <<config, running, sem_value, loop_task, loops, stopAwait,
                   counters, accepted>>

\* stop() from the moment the awaited loop task is done: the final _flush()
StopResume(c) ==
    /\ stopPc[c] = "await_loop"
    /\ loops[stopAwait[c]].pc = "done"
    /\ Flush("stop")
    /\ stopPc' = [stopPc EXCEPT ![c] = "idle"]
    /\ drained' = accepted
    /\ lastCall' = "stop_done"
    /\ UNCHANGED <<config, running, sem_value, loop_task, loops, stopAwait,
                   counters, accepted>>

(* ----------------------------- _batch_loop ---------------------------- *)
\* the loop head, reached when the task first runs and when sleep(0.01) ends
LoopHead(l) ==
    /\ loops[l].pc \in {"new", "sleep"}
    /\ loops' = [loops EXCEPT ![l] =
                    IF running THEN [pc |-> "wait", woken |-> flush_event]
                               ELSE [pc |-> "done", woken |-> FALSE]]
    /\ UNCHANGED <<config, buffer, flush_event, buffer_lock, running, sem_value, loop_task,
                   tasks, stopVars, counters, QUEQUE_SIZE, accepted, drained,
                   lastCall>>

\* wait_for returns because the event was set
LoopWakeSignal(l) ==
    /\ loops[l].pc = "wait"
    /\ loops[l].woken
    /\ Flush("signal")
    /\ loops' = [loops EXCEPT ![l] = [pc |-> "sleep", woken |-> FALSE]]
    /\ UNCHANGED <<config, running, sem_value, loop_task, stopVars, counters,
                   accepted, drained, lastCall>>

\* a loop that swallows the TimeoutError and does not flush
LoopWakeTimeout_NoFlush(l) ==
    /\ loops[l].pc = "wait"
    /\ ~loops[l].woken
    /\ loops' = [loops EXCEPT ![l] = [pc |-> "sleep", woken |-> FALSE]]
    /\ UNCHANGED <<config, running, sem_value, loop_task, stopVars, counters,
                   accepted, drained, lastCall, buffer, tasks, QUEQUE_SIZE,
                   flush_event, buffer_lock>>

\* wait_for raises TimeoutError after timeout_seconds
LoopWakeTimeout(l) ==
    /\ loops[l].pc = "wait"
    /\ ~loops[l].woken
    /\ Flush("timeout")
    /\ loops' = [loops EXCEPT ![l] = [pc |-> "sleep", woken |-> FALSE]]
    /\ UNCHANGED <<config, running, sem_value, loop_task, stopVars, counters,
                   accepted, drained, lastCall>>

(* ------------- _run_with_semaphore / _run_batch_with_retries ---------- *)
\* a dispatch task that runs _run_batch_with_retries without taking a permit
DispatchStart_NoSemaphore(t) ==
    /\ tasks[t].pc = "pending"
    /\ AI_CALLS' = AI_CALLS + 1
    /\ tasks' = [tasks EXCEPT ![t] = [@ EXCEPT !.pc = "calling", !.attempt = 1,
                                              !.calls = 1,
                                              !.sent = Append(@, tasks[t].batch)]]
    /\ UNCHANGED <<config, buffer, flush_event, buffer_lock, running, loop_task, loops,
                   stopVars, AI_ERRORS, QUEQUE_SIZE, accepted, drained, lastCall,
                   sem_value>>

\* the permit is acquired, AI_CALLS.inc(), and the first attempt begins
DispatchStart(t) ==
    /\ tasks[t].pc = "pending"
    /\ sem_value > 0
    /\ sem_value' = sem_value - 1
    /\ AI_CALLS' = AI_CALLS + 1
    /\ tasks' = [tasks EXCEPT ![t] = [@ EXCEPT !.pc = "calling", !.attempt = 1,
                                              !.calls = 1,
                                              !.sent = Append(@, tasks[t].batch)]]
    /\ UNCHANGED <<config, buffer, flush_event, buffer_lock, running, loop_task, loops,
                   stopVars, AI_ERRORS, QUEQUE_SIZE, accepted, drained, lastCall>>

\* a successful batch that never gives its permit back
CallReturns_KeepsPermit(t) ==
    /\ tasks[t].pc = "calling"
    /\ tasks' = [tasks EXCEPT ![t] = [@ EXCEPT !.pc = "done", !.out = "success"]]
    /\ UNCHANGED <<config, buffer, flush_event, buffer_lock, running, loop_task, loops,
                   stopVars, counters, QUEQUE_SIZE, accepted, drained, lastCall,
                   sem_value>>

\* run_ai_analysis_batch returns: the retry loop ends, the permit is released
CallReturns(t) ==
    /\ tasks[t].pc = "calling"
    /\ tasks' = [tasks EXCEPT ![t] = [@ EXCEPT !.pc = "done", !.out = "success"]]
    /\ sem_value' = sem_value + 1
    /\ UNCHANGED <<config, buffer, flush_event, buffer_lock, running, loop_task, loops,
                   stopVars, counters, QUEQUE_SIZE, accepted, drained, lastCall>>

\* a retry policy of stop_after_attempt(2)
CallRaises_GivesUpEarly(t) ==
    /\ tasks[t].pc = "calling"
    /\ IF tasks[t].attempt >= MaxAttempts - 1
       THEN /\ AI_ERRORS' = AI_ERRORS + 1
            /\ tasks' = [tasks EXCEPT ![t] = [@ EXCEPT !.pc = "done", !.out = "error",
                                                      !.fails = @ + 1]]
            /\ sem_value' = sem_value + 1
       ELSE /\ tasks' = [tasks EXCEPT ![t] =
                            [@ EXCEPT !.pc = "backoff", !.fails = @ + 1,
                                      !.wait = WaitExponential(tasks[t].attempt)]]
            /\ UNCHANGED <<AI_ERRORS, sem_value>>
    /\ UNCHANGED <<config, buffer, flush_event, buffer_lock, running, loop_task, loops,
                   stopVars, AI_CALLS, QUEQUE_SIZE, accepted, drained, lastCall>>

\* AI_ERRORS.inc() placed inside the retry loop: counted on every failed attempt
CallRaises_CountsEveryFailure(t) ==
    /\ tasks[t].pc = "calling"
    /\ AI_ERRORS' = AI_ERRORS + 1
    /\ IF tasks[t].attempt >= MaxAttempts
       THEN /\ tasks' = [tasks EXCEPT ![t] = [@ EXCEPT !.pc = "done", !.out = "error",
                                                      !.fails = @ + 1]]
            /\ sem_value' = sem_value + 1
       ELSE /\ tasks' = [tasks EXCEPT ![t] =
                            [@ EXCEPT !.pc = "backoff", !.fails = @ + 1,
                                      !.wait = WaitExponential(tasks[t].attempt)]]
            /\ UNCHANGED sem_value
    /\ UNCHANGED <<config, buffer, flush_event, buffer_lock, running, loop_task, loops,
                   stopVars, AI_CALLS, QUEQUE_SIZE, accepted, drained, lastCall>>

\* a batcher that stops itself when a batch fails after its last attempt
CallRaises_StopsOnTerminalFailure(t) ==
    /\ tasks[t].pc = "calling"
    /\ IF tasks[t].attempt >= MaxAttempts
       THEN /\ AI_ERRORS' = AI_ERRORS + 1
            /\ tasks' = [tasks EXCEPT ![t] = [@ EXCEPT !.pc = "done", !.out = "error",
                                                      !.fails = @ + 1]]
            /\ sem_value' = sem_value + 1
            /\ running' = FALSE
       ELSE /\ tasks' = [tasks EXCEPT ![t] =
                            [@ EXCEPT !.pc = "backoff", !.fails = @ + 1,
                                      !.wait = WaitExponential(tasks[t].attempt)]]
            /\ UNCHANGED <<AI_ERRORS, sem_value, running>>
    /\ UNCHANGED <<config, buffer, flush_event, buffer_lock, loop_task, loops,
                   stopVars, AI_CALLS, QUEQUE_SIZE, accepted, drained, lastCall>>

\* a dispatch task that gives its permit back for the time of a retry wait
\* and does not take it again
CallRaises_FreesPermitInBackoff(t) ==
    /\ tasks[t].pc = "calling"
    /\ IF tasks[t].attempt >= MaxAttempts
       THEN /\ AI_ERRORS' = AI_ERRORS + 1
            /\ tasks' = [tasks EXCEPT ![t] = [@ EXCEPT !.pc = "done", !.out = "error",
                                                      !.fails = @ + 1]]
            /\ sem_value' = sem_value + 1
       ELSE /\ tasks' = [tasks EXCEPT ![t] =
                            [@ EXCEPT !.pc = "backoff", !.fails = @ + 1,
                                      !.wait = WaitExponential(tasks[t].attempt)]]
            /\ sem_value' = sem_value + 1
            /\ UNCHANGED AI_ERRORS
    /\ UNCHANGED <<config, buffer, flush_event, buffer_lock, running, loop_task, loops,
                   stopVars, AI_CALLS, QUEQUE_SIZE, accepted, drained, lastCall>>

\* run_ai_analysis_batch raises an Exception: wait and retry, or give up
CallRaises(t) ==
    /\ tasks[t].pc = "calling"
    /\ IF tasks[t].attempt >= MaxAttempts
       THEN /\ AI_ERRORS' = AI_ERRORS + 1
            /\ tasks' = [tasks EXCEPT ![t] = [@ EXCEPT !.pc = "done", !.out = "error",
                                                      !.fails = @ + 1]]
            /\ sem_value' = sem_value + 1
       ELSE /\ tasks' = [tasks EXCEPT ![t] =
                            [@ EXCEPT !.pc = "backoff", !.fails = @ + 1,
                                      !.wait = WaitExponential(tasks[t].attempt)]]
            /\ UNCHANGED <<AI_ERRORS, sem_value>>
    /\ UNCHANGED <<config, buffer, flush_event, buffer_lock, running, loop_task, loops,
                   stopVars, AI_CALLS, QUEQUE_SIZE, accepted, drained, lastCall>>

\* a retry that counts as one more call attempted
BackoffDone_CountsAttempt(t) ==
    /\ tasks[t].pc = "backoff"
    /\ AI_CALLS' = AI_CALLS + 1
    /\ tasks' = [tasks EXCEPT ![t] = [@ EXCEPT !.pc = "calling",
                                              !.attempt = @ + 1,
                                              !.calls = @ + 1,
                                              !.sent = Append(@, tasks[t].batch)]]
    /\ UNCHANGED <<config, buffer, flush_event, buffer_lock, running, sem_value, loop_task,
                   loops, stopVars, AI_ERRORS, QUEQUE_SIZE, accepted, drained,
                   lastCall>>

\* the back-off wait ends and the next attempt begins
BackoffDone(t) ==
    /\ tasks[t].pc = "backoff"
    /\ tasks' = [tasks EXCEPT ![t] = [@ EXCEPT !.pc = "calling",
                                              !.attempt = @ + 1,
                                              !.calls = @ + 1,
                                              !.sent = Append(@, tasks[t].batch)]]
    /\ UNCHANGED <<config, buffer, flush_event, buffer_lock, running, sem_value, loop_task,
                   loops, stopVars, counters, QUEQUE_SIZE, accepted, drained,
                   lastCall>>

(* ------------------- the batcher wired to AIAnalyzer ------------------ *)
\* The attempt calls AIAnalyzer.run_ai_analysis_batch on a batch with an item
\* the heuristic leaves open, and the OpenAI request raises (network or
\* service error): _call_external_ai_for_batch catches the exception and
\* returns one {"status": "error"} outcome per record, run_ai_analysis_batch
\* merges them and returns. The retry loop sees a call that returned.
CallExternalFails(t) ==
    /\ tasks[t].pc = "calling"
    /\ tasks' = [tasks EXCEPT ![t] = [@ EXCEPT !.pc = "done", !.out = "success",
                                              !.ext = "failed"]]
    /\ sem_value' = sem_value + 1
    /\ UNCHANGED <<config, buffer, flush_event, buffer_lock, running, loop_task, loops,
                   stopVars, counters, QUEQUE_SIZE, accepted, drained, lastCall>>

(* --------------------- cancellation of a dispatch task ---------------- *)
\* a dispatch task whose CancelledError is caught by "except Exception", as
\* it was before Python 3.8: the cancellation is counted in AI_ERRORS
Cancel_CountedAsError(t) ==
    /\ tasks[t].pc \in {"pending", "calling", "backoff"}
    /\ tasks' = [tasks EXCEPT ![t] = [@ EXCEPT !.pc = "done", !.out = "error",
                                              !.at = tasks[t].pc]]
    /\ sem_value' = IF tasks[t].pc = "pending" THEN sem_value ELSE sem_value + 1
    /\ AI_ERRORS' = IF tasks[t].pc = "pending" THEN AI_ERRORS ELSE AI_ERRORS + 1
    /\ UNCHANGED <<config, buffer, flush_event, buffer_lock, running, loop_task, loops,
                   stopVars, AI_CALLS, QUEQUE_SIZE, accepted, drained, lastCall>>

\* task.cancel() (by the event loop at shutdown, or by whoever holds the
\* task) takes effect where the task is suspended: CancelledError is raised
\* at the semaphore (no permit held yet), inside the classification call or
\* inside the back-off sleep. It is a BaseException: tenacity does not retry
\* it and "except Exception" (line 123) does not catch it, so it leaves
\* _run_batch_with_retries uncounted; "async with" gives the permit back.
Cancel(t) ==
    /\ tasks[t].pc \in {"pending", "calling", "backoff"}
    /\ tasks' = [tasks EXCEPT ![t] = [@ EXCEPT !.pc = "done", !.out = "cancelled",
                                              !.at = tasks[t].pc]]
    /\ sem_value' = IF tasks[t].pc = "pending" THEN sem_value ELSE sem_value + 1
    /\ UNCHANGED <<config, buffer, flush_event, buffer_lock, running, loop_task, loops,
                   stopVars, counters, QUEQUE_SIZE, accepted, drained, lastCall>>

(* ============================ AIAnalyzer ============================== *)
\* record.get("osnr") / record.get("ber"): None when the key is missing or
\* its value is None, else the number
None == [has |-> FALSE, v |-> 0]
Some(x) == [has |-> TRUE, v |-> x]
Metric(S) == {None} \cup {Some(x) : x \in S}

\* the batches run_ai_analysis_batch is called with: up to MaxBatchLen
\* records; the device_id of a record is its position in the batch
InputBatches ==
    UNION {{[i \in 1..n |-> [device_id |-> i, osnr |-> f[i].osnr, ber |-> f[i].ber]] :
               f \in [1..n -> [osnr : Metric(OsnrValues), ber : Metric(BerValues)]]} :
           n \in 0..MaxBatchLen}

\* the exceptions the OpenAI request raises: a timeout, a service error
Failures == {"timeout", "service"}

\* number of outputs in the answer of the external model: JSON list
\* elements, or lines of text
ResponseSizes == 0..(MaxBatchLen + 1)

\* run_ai_analysis with "osnr > 30": the boundary value is not healthy
RunAiAnalysis_StrictOsnr(record) ==
    LET osnr == record.osnr
        ber == record.ber
    IN  IF osnr.has /\ ber.has /\ osnr.v > OsnrLimit /\ ber.v <= BerLimit
        THEN [status |-> "healthy", reason |-> "heuristic_ok"]
        ELSE [status |-> "needs_ai", reason |-> "heuristic_uncertain"]

\* AIAnalyzer.run_ai_analysis
RunAiAnalysis(record) ==
    LET osnr == record.osnr
        ber == record.ber
    IN  IF osnr.has /\ ber.has /\ osnr.v >= OsnrLimit /\ ber.v <= BerLimit
        THEN [status |-> "healthy", reason |-> "heuristic_ok"]
        ELSE [status |-> "needs_ai", reason |-> "heuristic_uncertain"]

\* the entries of the list `results`: the None placeholder, ...
NoneResult ==
    [kind |-> "None", status |-> "none", device_id |-> 0, n |-> 0, message |-> "none"]
\* ... a result of run_ai_analysis (it carries no device_id), ...
HeuristicResult(res) ==
    [kind |-> "heuristic", status |-> res.status, device_id |-> 0, n |-> 0,
     message |-> "none"]
\* ... and an output of _call_external_ai_for_batch, made for the record with
\* this device_id from element n of the answer (kind "ai_output": element of
\* a JSON list, "message": line of text, "error": the request failed; the
\* message of an error outcome is "AI analysis failed: " and the exception)
ExternalResult(kind, record, n) ==
    [kind |-> kind, status |-> IF kind = "error" THEN "error" ELSE "none",
     device_id |-> record.device_id, n |-> n, message |-> "none"]

EmptyPass == [results |-> <<>>, ai_needed |-> <<>>, ai_indices |-> <<>>]

RECURSIVE HeuristicPass_NewestFirst(_, _, _)
\* a first pass that collects the open items newest first (insert(0, ...))
HeuristicPass_NewestFirst(batch, i, acc) ==
    IF i > Len(batch) THEN acc
    ELSE LET res == RunAiAnalysis(batch[i])
         IN  HeuristicPass_NewestFirst(batch, i + 1,
                 IF res.status = "needs_ai"
                 THEN [results |-> Append(acc.results, NoneResult),
                       ai_needed |-> <<batch[i]>> \o acc.ai_needed,
                       ai_indices |-> <<i>> \o acc.ai_indices]
                 ELSE [acc EXCEPT !.results = Append(@, HeuristicResult(res))])

RECURSIVE HeuristicPass(_, _, _)
\* the first-pass loop of run_ai_analysis_batch from item i on
HeuristicPass(batch, i, acc) ==
    IF i > Len(batch) THEN acc
    ELSE LET res == RunAiAnalysis(batch[i])
         IN  HeuristicPass(batch, i + 1,
                 IF res.status = "needs_ai"
                 THEN [results |-> Append(acc.results, NoneResult),
                       ai_needed |-> Append(acc.ai_needed, batch[i]),
                       ai_indices |-> Append(acc.ai_indices, i)]
                 ELSE [acc EXCEPT !.results = Append(@, HeuristicResult(res))])

\* zip(records, answer) of _call_external_ai_for_batch for an answer of m
\* outputs: the shorter of the two decides
Zip(kind, records, m) ==
    [j \in 1..Min(Len(records), m) |-> ExternalResult(kind, records[j], j)]

\* an error list that holds one outcome for the whole request
ErrorFallback_OneOutcome(records, e) ==
    [j \in 1..Min(Len(records), 1) |->
        [ExternalResult("error", records[j], 0) EXCEPT !.message = e]]

\* the list of error outcomes returned when the request raised e
ErrorFallback(records, e) ==
    [j \in 1..Len(records) |->
        [ExternalResult("error", records[j], 0) EXCEPT !.message = e]]

RECURSIVE Merge_ByPosition(_, _, _, _)
\* a merge that writes output j to position j of results
Merge_ByPosition(results, indices, ai_out, j) ==
    IF j > Min(Len(indices), Len(ai_out)) THEN results
    ELSE Merge_ByPosition([results EXCEPT ![j] = ai_out[j]], indices, ai_out, j + 1)

RECURSIVE Merge(_, _, _, _)
\* "for idx, out in zip(ai_indices, ai_out): results[idx] = out", from pair j on
Merge(results, indices, ai_out, j) ==
    IF j > Min(Len(indices), Len(ai_out)) THEN results
    ELSE Merge([results EXCEPT ![indices[j]] = ai_out[j]], indices, ai_out, j + 1)

\* a call of run_ai_analysis_batch on a batch drawn from InputBatches
AnInit ==
    /\ BatcherInit
    /\ QueueInit
    /\ AppInit
    /\ a_pc = "idle"
    /\ a_batch \in InputBatches
    /\ a_results = <<>>
    /\ ai_needed = <<>>
    /\ ai_indices = <<>>
    /\ ext_calls = 0
    /\ a_cancel = "none"
    /\ a_answer = "none"

\* run_ai_analysis_batch that always goes on to the external call
AnCall_AlwaysExternal ==
    /\ a_pc = "idle"
    /\ LET p == HeuristicPass(a_batch, 1, EmptyPass)
       IN  /\ a_results' = p.results
           /\ ai_needed' = p.ai_needed
           /\ ai_indices' = p.ai_indices
           /\ a_pc' = "external"
           /\ ext_calls' = ext_calls + 1
    /\ UNCHANGED <<a_batch, a_cancel, a_answer, batcherVars, queueVars,
                   appVars>>

\* run_ai_analysis_batch from its call to its first suspension: the first
\* pass (run_ai_analysis does not suspend), then either the return of the
\* heuristic results or the call of _call_external_ai_for_batch, which
\* suspends in the OpenAI request
AnCall ==
    /\ a_pc = "idle"
    /\ LET p == HeuristicPass(a_batch, 1, EmptyPass)
       IN  /\ a_results' = p.results
           /\ ai_needed' = p.ai_needed
           /\ ai_indices' = p.ai_indices
           /\ IF p.ai_needed = <<>>
              THEN a_pc' = "returned" /\ ext_calls' = ext_calls
              ELSE a_pc' = "external" /\ ext_calls' = ext_calls + 1
    /\ UNCHANGED <<a_batch, a_cancel, a_answer, batcherVars, queueVars,
                   appVars>>

\* CancelledError is raised by the awaited run_ai_analysis of item i: the
\* except clause of line 67 re-raises it
AnCancelHeuristic ==
    /\ a_pc = "idle"
    /\ \E i \in 1..Len(a_batch) :
          LET p == HeuristicPass(SubSeq(a_batch, 1, i - 1), 1, EmptyPass)
          IN  /\ a_results' = p.results
              /\ ai_needed' = p.ai_needed
              /\ ai_indices' = p.ai_indices
    /\ a_pc' = "cancelled"
    /\ a_cancel' = "heuristic"
    /\ UNCHANGED <<a_batch, ext_calls, a_answer, batcherVars, queueVars,
                   appVars>>

\* _call_external_ai_for_batch returns ai_out; the outputs are merged and
\* run_ai_analysis_batch returns results
ExternalReturns(answer, ai_out) ==
    /\ a_pc = "external"
    /\ a_results' = Merge(a_results, ai_indices, ai_out, 1)
    /\ a_pc' = "returned"
    /\ a_answer' = answer
    /\ UNCHANGED <<a_batch, ai_needed, ai_indices, ext_calls, a_cancel, batcherVars, queueVars,
                   appVars>>

\* the answer parses as a JSON list of m elements
AnExternalList(m) == ExternalReturns("list", Zip("ai_output", ai_needed, m))

\* the answer is no JSON list: it is split into its k lines
AnExternalLines(k) == ExternalReturns("lines", Zip("message", ai_needed, k))

\* the request, or the handling of its answer, raises the Exception e
AnExternalFails(e) == ExternalReturns("raised", ErrorFallback(ai_needed, e))

\* a cancellation caught inside _call_external_ai_for_batch like the other
\* exceptions ("except BaseException") and turned into error outcomes
AnCancelExternal_Swallowed ==
    /\ a_pc = "external"
    /\ a_results' = Merge(a_results, ai_indices, ErrorFallback(ai_needed, "cancelled"), 1)
    /\ a_pc' = "returned"
    /\ a_cancel' = "external"
    /\ UNCHANGED <<a_batch, ai_needed, ai_indices, ext_calls, a_answer, batcherVars, queueVars,
                   appVars>>

\* CancelledError is raised in the OpenAI request: "except Exception" (line
\* 141) does not catch it, the except clause of line 67 re-raises it
AnCancelExternal ==
    /\ a_pc = "external"
    /\ a_pc' = "cancelled"
    /\ a_cancel' = "external"
    /\ UNCHANGED <<a_batch, a_results, ai_needed, ai_indices, ext_calls, a_answer,
                   batcherVars, queueVars,
                   appVars>>

(* ===================== TelemetryQueue and the routes ================== *)
\* the packets (record dicts) put into the queue
Packets == {"p1", "p2"}

\* the bodies of POST /ingest/batch: lists of up to MaxIngest records
RecordLists == UNION {[1..n -> Packets] : n \in 0..MaxIngest}

\* TelemetryQueue.size
Size == Len(q_items)

\* TelemetryQueue.isEmpty
IsEmpty == Len(q_items) = 0

\* TelemetryQueue.enqueue
QEnqueue(packet) ==
    /\ Len(q_in) < MaxQueueOps
    /\ q_items' = Append(q_items, packet)
    /\ q_in' = Append(q_in, packet)
    /\ last_op' = "enqueue"
    /\ last_ret' = "none"
    /\ UNCHANGED <<q_out, r_count, bg_tasks, batcherVars, anVars, appVars>>

\* a dequeue() that takes the newest packet (deque.pop)
QDequeue_Newest ==
    /\ last_op' = "dequeue"
    /\ IF q_items = <<>>
       THEN /\ last_ret' = "None"
            /\ UNCHANGED <<q_items, q_out>>
       ELSE /\ last_ret' = q_items[Len(q_items)]
            /\ q_items' = SubSeq(q_items, 1, Len(q_items) - 1)
            /\ q_out' = Append(q_out, q_items[Len(q_items)])
    /\ UNCHANGED <<q_in, r_count, bg_tasks, batcherVars, anVars, appVars>>

\* TelemetryQueue.dequeue: None when the deque is empty, else popleft()
QDequeue ==
    /\ last_op' = "dequeue"
    /\ IF q_items = <<>>
       THEN /\ last_ret' = "None"
            /\ UNCHANGED <<q_items, q_out>>
       ELSE /\ last_ret' = Head(q_items)
            /\ q_items' = Tail(q_items)
            /\ q_out' = Append(q_out, Head(q_items))
    /\ UNCHANGED <<q_in, r_count, bg_tasks, batcherVars, anVars, appVars>>

\* queue.clear(): class TelemetryQueue defines no clear and no __getattr__,
\* so the attribute lookup raises AttributeError before anything is called
QClear ==
    /\ last_op' = "clear"
    /\ last_ret' = "AttributeError"
    /\ UNCHANGED <<q_items, q_in, q_out, r_count, bg_tasks, batcherVars, anVars, appVars>>

\* DELETE /queue/clear: clear_queue calls queue.clear() outside any try; the
\* AttributeError reaches the framework, which answers 500
ClearQueue ==
    /\ last_op' = "clear_queue"
    /\ last_ret' = "500"
    /\ UNCHANGED <<q_items, q_in, q_out, r_count, bg_tasks, batcherVars, anVars, appVars>>

\* POST /ingest/batch: every record is put into the queue and a background
\* task running app.ai.ai_analyzer.AIAnalyzer.run_ai_analysis is added for
\* it; the response reports len(records). The handler does not use
\* app.state.ai_batcher.
IngestBatch(records) ==
    /\ Len(q_in) + Len(records) <= MaxQueueOps
    /\ q_items' = q_items \o records
    /\ q_in' = q_in \o records
    /\ bg_tasks' = bg_tasks + Len(records)
    /\ r_count' = r_count + Len(records)
    /\ last_op' = "ingest_batch"
    /\ last_ret' = "200"
    /\ UNCHANGED <<q_out, batcherVars, anVars, appVars>>

(* ------------- services/pipeline.py and lifespan() of main.py --------- *)
\* bounds of the application model
MaxPipelines == 2
MaxFetches == 2

\* the defaults of AIBatcher.__init__, used by AIBatcher(analyzer) in lifespan()
DefaultBatchSize == 16
DefaultConcurrency == 2

\* set_pipeline_state(state), as a part of the action that calls it
SetPipelineState(state) ==
    /\ PIPELINE_RUNNING' = state
    /\ last_set' = <<state>>

is_pipeline_running == PIPELINE_RUNNING

\* the task asyncio.create_task(telemetry_pipeline()) makes. History fields:
\* by (who created it), fetches (iterations begun), reqs (POST requests
\* begun), posts (batches posted with success), last (how the last iteration
\* went on to its sleep), out (how the task ended).
\* cancel: a CancelledError is to be thrown into the task at its next step
NewPipeline(by) ==
    [pc |-> "new", by |-> by, cancel |-> FALSE, out |-> "none",
     fetches |-> 0, reqs |-> 0, posts |-> 0, last |-> "none"]

\* the pipeline tasks that are inside the while loop of telemetry_pipeline
Iterating == {p \in DOMAIN pipelines : pipelines[p].pc \in {"fetch", "post", "sleep"}}

\* the pipeline tasks that have not ended
AlivePipelines == {p \in DOMAIN pipelines : pipelines[p].pc # "done"}

\* telemetry_pipeline on its first step (line 25) or after a sleep: the loop
\* head of line 27, then the GET request of line 31 or the return
PipelineHead(p) ==
    /\ pipelines[p].pc \in {"new", "sleep"}
    /\ ~pipelines[p].cancel
    /\ is_pipeline_running => pipelines[p].fetches < MaxFetches
    /\ pipelines' = [pipelines EXCEPT ![p] =
                        IF is_pipeline_running
                        THEN [@ EXCEPT !.pc = "fetch", !.fetches = @ + 1]
                        ELSE [@ EXCEPT !.pc = "done", !.out = "normal"]]
    /\ UNCHANGED <<PIPELINE_RUNNING, last_set, ls_pc, ls_task, batcherVars, anVars,
                   queueVars>>

\* the GET returns records (lines 31-33): the POST of line 42 begins
FetchData(p) ==
    /\ pipelines[p].pc = "fetch"
    /\ ~pipelines[p].cancel
    /\ pipelines' = [pipelines EXCEPT ![p] =
                        [@ EXCEPT !.pc = "post", !.reqs = @ + 1]]
    /\ UNCHANGED <<PIPELINE_RUNNING, last_set, ls_pc, ls_task, batcherVars, anVars,
                   queueVars>>

\* the GET returns no records (lines 35-38): sleep, then the loop head
FetchEmpty(p) ==
    /\ pipelines[p].pc = "fetch"
    /\ ~pipelines[p].cancel
    /\ pipelines' = [pipelines EXCEPT ![p] =
                        [@ EXCEPT !.pc = "sleep", !.last = "empty"]]
    /\ UNCHANGED <<PIPELINE_RUNNING, last_set, ls_pc, ls_task, batcherVars, anVars,
                   queueVars>>

\* a fetch error that ends the task instead of being caught
FetchRaises_EndsLoop(p) ==
    /\ pipelines[p].pc = "fetch"
    /\ ~pipelines[p].cancel
    /\ pipelines' = [pipelines EXCEPT ![p] =
                        [@ EXCEPT !.pc = "done", !.out = "exception"]]
    /\ UNCHANGED <<PIPELINE_RUNNING, last_set, ls_pc, ls_task, batcherVars, anVars,
                   queueVars>>

\* the GET, raise_for_status or json() raises an Exception (lines 53-55)
FetchRaises(p) ==
    /\ pipelines[p].pc = "fetch"
    /\ ~pipelines[p].cancel
    /\ pipelines' = [pipelines EXCEPT ![p] =
                        [@ EXCEPT !.pc = "sleep", !.last = "fetch_error"]]
    /\ UNCHANGED <<PIPELINE_RUNNING, last_set, ls_pc, ls_task, batcherVars, anVars,
                   queueVars>>

\* the POST returns a success status (lines 42-51)
PostReturns(p) ==
    /\ pipelines[p].pc = "post"
    /\ ~pipelines[p].cancel
    /\ pipelines' = [pipelines EXCEPT ![p] =
                        [@ EXCEPT !.pc = "sleep", !.posts = @ + 1,
                                  !.last = "posted"]]
    /\ UNCHANGED <<PIPELINE_RUNNING, last_set, ls_pc, ls_task, batcherVars, anVars,
                   queueVars>>

\* the POST or raise_for_status raises an Exception (lines 53-55)
PostRaises(p) ==
    /\ pipelines[p].pc = "post"
    /\ ~pipelines[p].cancel
    /\ pipelines' = [pipelines EXCEPT ![p] =
                        [@ EXCEPT !.pc = "sleep", !.last = "post_error"]]
    /\ UNCHANGED <<PIPELINE_RUNNING, last_set, ls_pc, ls_task, batcherVars, anVars,
                   queueVars>>

\* an exception raised outside the try block, by the print of line 25
PipelineRaises(p) ==
    /\ pipelines[p].pc = "new"
    /\ ~pipelines[p].cancel
    /\ pipelines' = [pipelines EXCEPT ![p] =
                        [@ EXCEPT !.pc = "done", !.out = "exception"]]
    /\ UNCHANGED <<PIPELINE_RUNNING, last_set, ls_pc, ls_task, batcherVars, anVars,
                   queueVars>>

\* the CancelledError of Task.cancel() reaches the task: it is not an
\* Exception, so line 53 does not catch it; a task that has not run yet
\* never runs
PipelineCancelled(p) ==
    /\ pipelines[p].pc # "done"
    /\ pipelines[p].cancel
    /\ pipelines' = [pipelines EXCEPT ![p] =
                        [@ EXCEPT !.pc = "done", !.out = "cancelled"]]
    /\ UNCHANGED <<PIPELINE_RUNNING, last_set, ls_pc, ls_task, batcherVars, anVars,
                   queueVars>>

\* routes/telemetry.py toggle_pipeline(state), served while the application runs
TogglePipeline(state) ==
    /\ ls_pc = "serving"
    /\ SetPipelineState(state)
    /\ IF state
       THEN /\ Len(pipelines) < MaxPipelines
            /\ pipelines' = Append(pipelines, NewPipeline("toggle"))
       ELSE UNCHANGED pipelines
    /\ UNCHANGED <<ls_pc, ls_task, batcherVars, anVars, queueVars>>

\* lifespan() line 20
LifespanEnter ==
    /\ ls_pc = "off"
    /\ SetPipelineState(TRUE)
    /\ ls_pc' = "starting"
    /\ UNCHANGED <<pipelines, ls_task, batcherVars, anVars, queueVars>>

\* lifespan() lines 22-25: the batcher is built and started. start() does not
\* suspend, so lifespan() goes on to line 28 in the same step of the event
\* loop; the position "after line 25" is lastCall = "start"
LifespanStartBatcher ==
    /\ ls_pc = "starting"
    /\ lastCall = "none"
    /\ Start("owner")

\* lifespan() lines 28-31, then the yield of line 34
LifespanCreatePipeline_BeforeBatcher ==
    /\ ls_pc = "starting"
    /\ pipelines' = Append(pipelines, NewPipeline("lifespan"))
    /\ ls_task' = Len(pipelines) + 1
    /\ ls_pc' = "serving"
    /\ UNCHANGED <<PIPELINE_RUNNING, last_set, batcherVars, anVars, queueVars>>

LifespanCreatePipeline ==
    /\ ls_pc = "starting"
    /\ lastCall = "start"
    /\ pipelines' = Append(pipelines, NewPipeline("lifespan"))
    /\ ls_task' = Len(pipelines) + 1
    /\ ls_pc' = "serving"
    /\ UNCHANGED <<PIPELINE_RUNNING, last_set, batcherVars, anVars, queueVars>>

\* Base.metadata.create_all of line 28 raises: lifespan() ends before its
\* try block, no pipeline task is created and nothing stops the batcher
LifespanCreateTablesFails ==
    /\ ls_pc = "starting"
    /\ lastCall = "start"
    /\ ls_pc' = "failed"
    /\ UNCHANGED <<PIPELINE_RUNNING, last_set, pipelines, ls_task, batcherVars,
                   anVars, queueVars>>

\* lifespan() lines 37-41: shutdown begins. Task.cancel() does nothing to a
\* task that is done
LifespanShutdown ==
    /\ ls_pc = "serving"
    /\ SetPipelineState(FALSE)
    /\ pipelines' = [pipelines EXCEPT ![ls_task] =
                        IF @.pc = "done" THEN @ ELSE [@ EXCEPT !.cancel = TRUE]]
    /\ ls_pc' = "awaiting"
    /\ UNCHANGED <<ls_task, batcherVars, anVars, queueVars>>

\* lifespan() lines 41-45: the awaited task is done; its result, its
\* CancelledError or its Exception all lead to line 47
LifespanAwaitReturns ==
    /\ ls_pc = "awaiting"
    /\ pipelines[ls_task].pc = "done"
    /\ ls_pc' = "stopping"
    /\ UNCHANGED <<PIPELINE_RUNNING, last_set, pipelines, ls_task, batcherVars,
                   anVars, queueVars>>

\* lifespan() line 47: stop() is called; StopResume is its second part
LifespanStopBatcher ==
    /\ ls_pc = "stopping"
    /\ lastCall = "start"
    /\ StopBegin("owner")

\* lifespan() returns after stop() returned
LifespanExit ==
    /\ ls_pc = "stopping"
    /\ lastCall = "stop_done"
    /\ ls_pc' = "closed"
    /\ UNCHANGED <<PIPELINE_RUNNING, last_set, pipelines, ls_task, batcherVars,
                   anVars, queueVars>>

\* the state before lifespan() runs: the batcher it will build has the
\* default arguments
LifespanInit ==
    /\ batch_size = DefaultBatchSize
    /\ max_concurrency = DefaultConcurrency
    /\ buffer = <<>>
    /\ flush_event = FALSE
    /\ buffer_lock = FALSE
    /\ running = FALSE
    /\ sem_value = max_concurrency
    /\ loop_task = 0
    /\ loops = <<>>
    /\ tasks = <<>>
    /\ stopPc = [c \in Callers |-> "idle"]
    /\ stopAwait = [c \in Callers |-> 0]
    /\ AI_CALLS = 0
    /\ AI_ERRORS = 0
    /\ QUEQUE_SIZE = 0
    /\ accepted = 0
    /\ drained = 0
    /\ lastCall = "none"
    /\ AnalyzerOff
    /\ QueueInit
    /\ AppInit

(* --------------------------- specification ---------------------------- *)
\* start() and stop() are called by one coroutine, "owner", which awaits each
\* call before the next, as lifespan (src/app/main.py) and the tests do;
\* enqueue() may be called at any time, also while stop() waits for the loop.
Next ==
    \/ Enqueue
    \/ Start("owner")
    \/ StopBegin("owner")
    \/ StopResume("owner")
    \/ \E l \in DOMAIN loops : LoopHead(l)
    \/ \E l \in DOMAIN loops : LoopWakeSignal(l)
    \/ \E l \in DOMAIN loops : LoopWakeTimeout(l)
    \/ \E t \in DOMAIN tasks : DispatchStart(t)
    \/ \E t \in DOMAIN tasks : CallReturns(t)
    \/ \E t \in DOMAIN tasks : CallRaises(t)
    \/ \E t \in DOMAIN tasks : BackoffDone(t)

Spec == Init /\ [][Next]_vars

(***************************************************************************)
(* Fairness. The event loop runs every coroutine that is ready: the flush  *)
(* loop once its sleep is over or its event is set, stop() once the task   *)
(* it awaits is done, a dispatch task once a permit is free and once its   *)
(* back-off wait is over. A classification call is assumed to return or    *)
(* raise. Callers are free never to call enqueue(), start() or stop().     *)
(* FairSpec leaves the flush timer out: it may fire, it never has to.      *)
(* TimerSpec adds that a running timer does expire.                        *)
(***************************************************************************)
Fairness ==
    /\ \A c \in Callers : WF_vars(StopResume(c))
    /\ \A l \in 1..MaxLoops : WF_vars(l \in DOMAIN loops /\ LoopHead(l))
    /\ \A l \in 1..MaxLoops : WF_vars(l \in DOMAIN loops /\ LoopWakeSignal(l))
    /\ \A t \in 1..MaxAccepts : WF_vars(t \in DOMAIN tasks /\ DispatchStart(t))
    /\ \A t \in 1..MaxAccepts :
           WF_vars(t \in DOMAIN tasks /\ (CallReturns(t) \/ CallRaises(t)))
    /\ \A t \in 1..MaxAccepts : WF_vars(t \in DOMAIN tasks /\ BackoffDone(t))

FairSpec == Spec /\ Fairness

TimerFairness ==
    \A l \in 1..MaxLoops : WF_vars(l \in DOMAIN loops /\ LoopWakeTimeout(l))

TimerSpec == Spec /\ Fairness /\ TimerFairness


\* The batcher as the application builds it, with an AIAnalyzer: besides
\* returning and raising, a classification call can end with the external
\* request failing inside the analyzer.
WiredNext ==
    \/ Next
    \/ \E t \in DOMAIN tasks : CallExternalFails(t)

WiredSpec == Init /\ [][WiredNext]_vars

\* The batcher with dispatch tasks that may be cancelled.
CancelNext ==
    \/ Next
    \/ \E t \in DOMAIN tasks : Cancel(t)

CancelSpec == Init /\ [][CancelNext]_vars

\* One call of AIAnalyzer.run_ai_analysis_batch, on its own.
AnalyzerNext ==
    \/ AnCall
    \/ AnCancelHeuristic
    \/ AnCancelExternal
    \/ \E m \in ResponseSizes : AnExternalList(m)
    \/ \E k \in ResponseSizes : AnExternalLines(k)
    \/ \E e \in Failures : AnExternalFails(e)

AnalyzerSpec == AnInit /\ [][AnalyzerNext]_vars

\* The way of an item from enqueue() to its outcome: a behaviour is either
\* one of the batcher (buffer to batch) or one of an analyzer call (batch to
\* results).
OrderInit == Init \/ AnInit

OrderNext ==
    \/ a_pc = "off" /\ Enqueue
    \/ a_pc = "off" /\ Start("owner")
    \/ a_pc = "off" /\ StopBegin("owner")
    \/ a_pc = "off" /\ StopResume("owner")
    \/ a_pc = "off" /\ \E l \in DOMAIN loops : LoopHead(l)
    \/ a_pc = "off" /\ \E l \in DOMAIN loops : LoopWakeSignal(l)
    \/ a_pc = "off" /\ \E l \in DOMAIN loops : LoopWakeTimeout(l)
    \/ a_pc = "off" /\ \E t \in DOMAIN tasks : DispatchStart(t)
    \/ a_pc = "off" /\ \E t \in DOMAIN tasks : CallReturns(t)
    \/ a_pc = "off" /\ \E t \in DOMAIN tasks : CallRaises(t)
    \/ a_pc = "off" /\ \E t \in DOMAIN tasks : BackoffDone(t)
    \/ AnalyzerNext

OrderSpec == OrderInit /\ [][OrderNext]_vars

\* The TelemetryQueue on its own.
QueueNext ==
    \/ \E packet \in Packets : QEnqueue(packet)
    \/ QDequeue

QueueSpec == Init /\ [][QueueNext]_vars

\* The queue behind the routes of routes/telemetry.py.
RoutesNext ==
    \/ QueueNext
    \/ QClear
    \/ ClearQueue
    \/ \E records \in RecordLists : IngestBatch(records)

RoutesSpec == Init /\ [][RoutesNext]_vars

\* the batcher is stopped: before the first start(), or after stop() has
\* returned and before the next start()
Stopped == ~running /\ \A c \in Callers : stopPc[c] = "idle"

\* The batcher whose callers call enqueue() only while it is stopped.
AcceptStoppedNext ==
    \/ Stopped /\ Enqueue
    \/ Start("owner")
    \/ StopBegin("owner")
    \/ StopResume("owner")
    \/ \E l \in DOMAIN loops : LoopHead(l)
    \/ \E l \in DOMAIN loops : LoopWakeSignal(l)
    \/ \E l \in DOMAIN loops : LoopWakeTimeout(l)
    \/ \E t \in DOMAIN tasks : DispatchStart(t)
    \/ \E t \in DOMAIN tasks : CallReturns(t)
    \/ \E t \in DOMAIN tasks : CallRaises(t)
    \/ \E t \in DOMAIN tasks : BackoffDone(t)

AcceptStoppedSpec ==
    Init /\ [][AcceptStoppedNext]_vars /\ Fairness /\ TimerFairness

\* The lifecycle of a batcher that several callers start and stop; no item
\* is accepted. A caller inside stop() makes no other call, the other
\* caller may.
MultiNext ==
    \/ \E c \in Callers : Start(c)
    \/ \E c \in Callers : StopBegin(c)
    \/ \E c \in Callers : StopResume(c)
    \/ \E l \in DOMAIN loops : LoopHead(l)
    \/ \E l \in DOMAIN loops : LoopWakeSignal(l)
    \/ \E l \in DOMAIN loops : LoopWakeTimeout(l)

MultiSpec ==
    /\ Init
    /\ [][MultiNext]_vars
    /\ \A c \in Callers : WF_vars(StopResume(c))
    /\ \A l \in 1..MaxLoops : WF_vars(l \in DOMAIN loops /\ LoopHead(l))
    /\ \A l \in 1..MaxLoops : WF_vars(l \in DOMAIN loops /\ LoopWakeSignal(l))
    /\ \A l \in 1..MaxLoops : WF_vars(l \in DOMAIN loops /\ LoopWakeTimeout(l))

\* The batcher with callers that also await _flush() directly.
DirectNext ==
    \/ Next
    \/ DirectFlush

DirectSpec == Init /\ [][DirectNext]_vars

\* The application: lifespan(), the flush loop of its batcher, the pipeline
\* tasks and the toggle route. Nothing calls enqueue() of this batcher
\* (ingest_batch does not), so no batch is ever dispatched here.
AppNext ==
    \/ LifespanEnter
    \/ LifespanStartBatcher
    \/ LifespanCreatePipeline
    \/ LifespanCreateTablesFails
    \/ LifespanShutdown
    \/ LifespanAwaitReturns
    \/ LifespanStopBatcher
    \/ StopResume("owner")
    \/ LifespanExit
    \/ \E l \in DOMAIN loops : LoopHead(l)
    \/ \E l \in DOMAIN loops : LoopWakeSignal(l)
    \/ \E l \in DOMAIN loops : LoopWakeTimeout(l)
    \/ \E state \in BOOLEAN : TogglePipeline(state)
    \/ \E p \in DOMAIN pipelines : PipelineHead(p)
    \/ \E p \in DOMAIN pipelines : FetchData(p)
    \/ \E p \in DOMAIN pipelines : FetchEmpty(p)
    \/ \E p \in DOMAIN pipelines : FetchRaises(p)
    \/ \E p \in DOMAIN pipelines : PostReturns(p)
    \/ \E p \in DOMAIN pipelines : PostRaises(p)
    \/ \E p \in DOMAIN pipelines : PipelineRaises(p)
    \/ \E p \in DOMAIN pipelines : PipelineCancelled(p)

AppSpec == LifespanInit /\ [][AppNext]_vars

\* every step of pipeline task p
PipelineStep(p) ==
    \/ PipelineHead(p)
    \/ FetchData(p) \/ FetchEmpty(p) \/ FetchRaises(p)
    \/ PostReturns(p) \/ PostRaises(p)
    \/ PipelineCancelled(p)

\* The event loop runs a pipeline task whose request or sleep has ended; a
\* request and a sleep end after a finite time.
FairAppSpec ==
    AppSpec /\ \A p \in 1..MaxPipelines :
                  WF_vars(p \in DOMAIN pipelines /\ PipelineStep(p))

(* ======================= properties of the model ====================== *)
InBuffer(i) == i \in Range(buffer)

\* the batches (dispatch tasks) that hold item i
BatchesWith(i) == {t \in DOMAIN tasks : i \in Range(tasks[t].batch)}

InSomeBatch(i) == BatchesWith(i) # {}

\* a batch has been handed to run_ai_analysis_batch once its first attempt began
Submitted(t) == tasks[t].pc # "pending"

RECURSIVE ItemsIn(_, _)
\* number of items in the batches of the task set T
ItemsIn(ts, T) ==
    IF T = {} THEN 0
    ELSE LET t == CHOOSE x \in T : TRUE
         IN  Len(ts[t].batch) + ItemsIn(ts, T \ {t})

SubmittedItems == ItemsIn(tasks, {t \in DOMAIN tasks : Submitted(t)})
PendingItems == ItemsIn(tasks, {t \in DOMAIN tasks : ~Submitted(t)})

AliveLoops == {l \in DOMAIN loops : loops[l].pc # "done"}

\* a step in which caller c's stop() returns after having waited for the loop
StopReturns(c) == stopPc[c] = "await_loop" /\ stopPc'[c] = "idle"

(***************************************************************************)
(* C1. No loss, no duplication: every accepted item is, at any time, in    *)
(* exactly one place (the buffer or exactly one batch), so the items       *)
(* submitted, the items of batches still waiting for a permit and the      *)
(* buffered items add up to the number of enqueue() calls; and once a      *)
(* stop() that found the batcher running has returned, no enqueue() has    *)
(* followed it and no batch is left waiting, the number of items submitted *)
(* to run_ai_analysis_batch equals the number of enqueue() calls. A batch  *)
(* counts once however many attempts it takes.                             *)
(***************************************************************************)
C1_SubmittedExactlyOnce ==
    /\ \A i \in 1..accepted :
           (IF InBuffer(i) THEN 1 ELSE 0) + Cardinality(BatchesWith(i)) = 1
    /\ Len(buffer) + PendingItems + SubmittedItems = accepted
    /\ (lastCall = "stop_done" /\ drained = accepted /\ PendingItems = 0)
          => SubmittedItems = accepted

\* a draining stop() has returned, two batches were flushed (one of them by
\* stop()), and all of it has been submitted, one batch after a retry
C1_Witness ==
    /\ lastCall = "stop_done"
    /\ drained = accepted
    /\ accepted = MaxAccepts
    /\ Len(tasks) >= 2
    /\ \A t \in DOMAIN tasks : tasks[t].pc = "done"
    /\ \E t \in DOMAIN tasks : tasks[t].calls > 1

(***************************************************************************)
(* C2. Drain on shutdown: the step in which a stop() that had to wait      *)
(* returns is taken only when the awaited flush loop has exited; it is the *)
(* step of the final flush, which makes at most one batch, the whole       *)
(* buffer; after it the batcher is stopped, no flush loop is alive, the    *)
(* buffer is empty and every item accepted so far is in some batch. No     *)
(* batch is flushed by stop() in any other step.                           *)
(***************************************************************************)
C2_DrainOnStop ==
    [][ /\ \A c \in Callers :
              StopReturns(c) =>
                 /\ loops[stopAwait[c]].pc = "done"
                 /\ ~running'
                 /\ AliveLoops' = {}
                 /\ buffer' = <<>>
                 /\ \A i \in 1..accepted : InSomeBatch(i)'
                 /\ tasks' = IF buffer = <<>> THEN tasks
                              ELSE Append(tasks, NewTask(buffer, "stop"))
        /\ \A t \in DOMAIN tasks' \ DOMAIN tasks :
              tasks'[t].by = "stop" => \E c \in Callers : StopReturns(c)
      ]_vars

\* stop() has returned and its final flush made a batch; the flush loop had
\* flushed an earlier batch
C2_Witness ==
    /\ lastCall = "stop_done"
    /\ stopPc["owner"] = "idle"
    /\ buffer = <<>>
    /\ \E t \in DOMAIN tasks : tasks[t].by = "stop"
    /\ \E t \in DOMAIN tasks : tasks[t].by # "stop"

(***************************************************************************)
(* C3. Size trigger: an enqueue() that brings the buffer to batch_size or  *)
(* more sets the flush event and wakes the waiting loop, one that leaves   *)
(* the buffer below batch_size leaves the event as it was; and while the   *)
(* batcher runs, an item in a buffer of batch_size or more items is moved  *)
(* into a batch, by a flush that no timeout caused, in every behaviour of  *)
(* FairSpec, where the flush timer never has to expire.                    *)
(***************************************************************************)
C3_SizeTrigger ==
    /\ [][ accepted' = accepted + 1 =>
             IF Len(buffer') >= batch_size
             THEN /\ flush_event'
                  /\ \A l \in DOMAIN loops' : loops'[l].pc = "wait" => loops'[l].woken
             ELSE /\ flush_event' = flush_event
                  /\ loops' = loops
         ]_vars
    /\ \A i \in 1..MaxAccepts :
           (running /\ InBuffer(i) /\ Len(buffer) >= batch_size)
              ~> (\E t \in BatchesWith(i) : tasks[t].by # "timeout")

\* with batch_size 2, the loop was woken by the event and flushed a full
\* batch while the batcher was running
C3_Witness ==
    /\ batch_size = 2
    /\ running
    /\ \E t \in DOMAIN tasks :
           tasks[t].by = "signal" /\ Len(tasks[t].batch) = batch_size

(***************************************************************************)
(* C4. Time trigger: when the flush timer of a waiting loop expires, the   *)
(* whole buffer becomes one batch (none if the buffer is empty); and, the  *)
(* timer being fair (TimerSpec), every item buffered while the batcher is  *)
(* running is eventually in a batch, whether or not another enqueue()      *)
(* follows.                                                                *)
(***************************************************************************)
C4_TimeTrigger ==
    /\ [][ \A l \in DOMAIN loops :
               (loops[l].pc = "wait" /\ ~loops[l].woken /\ loops'[l].pc = "sleep")
                  => /\ buffer' = <<>>
                     /\ tasks' = IF buffer = <<>> THEN tasks
                                  ELSE Append(tasks, NewTask(buffer, "timeout"))
         ]_vars
    /\ \A i \in 1..MaxAccepts : (running /\ InBuffer(i)) ~> InSomeBatch(i)

\* a batch smaller than batch_size was flushed by the timer, batcher running
C4_Witness ==
    /\ running
    /\ \E t \in DOMAIN tasks :
           tasks[t].by = "timeout" /\ Len(tasks[t].batch) < batch_size

\* batches inside their attempt sequence: in a call or in a back-off wait
InFlight == {t \in DOMAIN tasks : tasks[t].pc \in {"calling", "backoff"}}
InCall == {t \in DOMAIN tasks : tasks[t].pc = "calling"}

(***************************************************************************)
(* C5. Concurrency ceiling: at most max_concurrency batches are in flight, *)
(* each holding one permit; with max_concurrency = 1 at most one           *)
(* classification call is in progress.                                     *)
(***************************************************************************)
C5_ConcurrencyCeiling ==
    /\ Cardinality(InFlight) <= max_concurrency
    /\ sem_value + Cardinality(InFlight) = max_concurrency
    /\ max_concurrency = 1 => Cardinality(InCall) <= 1

\* max_concurrency = 1: one batch is being classified, a second one waits
C5_Witness ==
    /\ max_concurrency = 1
    /\ InCall # {}
    /\ \E t \in DOMAIN tasks : tasks[t].pc = "pending"

(***************************************************************************)
(* C6. Backpressure is delayed start: a flushed batch is never dropped or  *)
(* changed, a waiting batch stays waiting until its first attempt begins,  *)
(* and (FairSpec: every call returns or raises) a batch that waits while   *)
(* all permits are taken is eventually dispatched.                         *)
(***************************************************************************)
C6_DelayedStart ==
    /\ [][ \A t \in DOMAIN tasks :
               /\ t \in DOMAIN tasks'
               /\ tasks'[t].batch = tasks[t].batch
               /\ tasks[t].pc = "pending" => tasks'[t].pc \in {"pending", "calling"}
         ]_vars
    /\ \A t \in 1..MaxAccepts :
           (t \in DOMAIN tasks /\ tasks[t].pc = "pending" /\ sem_value = 0)
              ~> (t \in DOMAIN tasks /\ tasks[t].calls >= 1)

\* a batch waits while every permit is taken
C6_Witness ==
    /\ sem_value = 0
    /\ \E t \in DOMAIN tasks : tasks[t].pc = "pending"
    /\ Cardinality(InFlight) = max_concurrency

Errored == {t \in DOMAIN tasks : tasks[t].out = "error"}
Succeeded == {t \in DOMAIN tasks : tasks[t].out = "success"}
Finished == {t \in DOMAIN tasks : tasks[t].pc = "done"}

(***************************************************************************)
(* C7. Retry until success: a batch that has finished after fewer than 3   *)
(* failed attempts has succeeded, its classifier was called exactly once   *)
(* more than it failed, and it added nothing to AI_ERRORS; a batch in a    *)
(* call has been called once more than it failed.                          *)
(***************************************************************************)
C7_RetryUntilSuccess ==
    /\ \A t \in DOMAIN tasks :
           /\ (tasks[t].pc = "done" /\ tasks[t].fails < MaxAttempts)
                 => (tasks[t].out = "success" /\ tasks[t].calls = tasks[t].fails + 1)
           /\ tasks[t].out = "success"
                 => (tasks[t].pc = "done" /\ tasks[t].fails < MaxAttempts)
           /\ tasks[t].pc = "calling" => tasks[t].calls = tasks[t].fails + 1
    /\ AI_ERRORS + Cardinality(Succeeded) <= Cardinality(Finished)

\* fail twice, then succeed: 3 calls, success, nothing in AI_ERRORS
C7_Witness ==
    /\ AI_ERRORS = 0
    /\ \E t \in DOMAIN tasks :
           tasks[t].out = "success" /\ tasks[t].fails = 2 /\ tasks[t].calls = 3

(***************************************************************************)
(* C8. Terminal failure: a batch with an error outcome was called exactly  *)
(* 3 times and failed 3 times, AI_ERRORS counts one error per such batch,  *)
(* none of its items is in the buffer, and a finished batch never changes  *)
(* again (no further attempt).                                             *)
(***************************************************************************)
C8_TerminalFailure ==
    /\ [](/\ \A t \in Errored :
                /\ tasks[t].pc = "done"
                /\ tasks[t].calls = MaxAttempts
                /\ tasks[t].fails = MaxAttempts
                /\ \A i \in Range(tasks[t].batch) : ~InBuffer(i)
           /\ AI_ERRORS = Cardinality(Errored))
    /\ [][ \A t \in Finished : tasks'[t] = tasks[t] ]_vars

\* a batch has failed for good while another item is buffered
C8_Witness ==
    /\ Errored # {}
    /\ buffer # <<>>
    /\ AI_ERRORS = 1

(***************************************************************************)
(* C9. start() is idempotent: a start() on a running batcher leaves it     *)
(* running with the same loop task and creates no loop; after a start(),   *)
(* and after any number of further start() calls, exactly one flush loop   *)
(* is alive and it is self._loop_task.                                     *)
(***************************************************************************)
C9_StartIdempotent ==
    /\ [](lastCall \in {"start", "start_noop"}
            => (running /\ AliveLoops = {loop_task}))
    /\ [](Cardinality(AliveLoops) <= 1)
    /\ [][ \A c \in Callers :
               (Start(c) /\ running)
                  => (running' /\ loop_task' = loop_task /\ loops' = loops)
         ]_vars

\* start() was called on a running batcher
C9_Witness ==
    /\ lastCall = "start_noop"
    /\ running
    /\ Cardinality(AliveLoops) = 1

(***************************************************************************)
(* C10. stop() is idempotent: a stop() on a stopped batcher returns in the *)
(* same step, leaves it stopped, flushes nothing (buffer, batches and      *)
(* flush event unchanged), starts no dispatch and touches no loop.         *)
(***************************************************************************)
C10_StopIdempotent ==
    /\ [](lastCall = "stop_noop" => ~running)
    /\ [][ \A c \in Callers :
               (StopBegin(c) /\ ~running)
                  => /\ ~running'
                     /\ stopPc'[c] = "idle"
                     /\ lastCall' = "stop_noop"
                     /\ UNCHANGED <<buffer, tasks, flush_event, loops, loop_task,
                                    sem_value, counters, QUEQUE_SIZE>>
         ]_vars

\* stop() was called after an earlier stop() had returned, an item accepted
\* since then is still buffered
C10_Witness ==
    /\ lastCall = "stop_noop"
    /\ loops # <<>>
    /\ buffer # <<>>
    /\ stopPc["owner"] = "idle"

(* ------------------------------- C11 ---------------------------------- *)
\* a step in which _flush() runs: the loop after its wait, or the end of stop()
FlushStep ==
    \/ \E l \in DOMAIN loops : LoopWakeSignal(l) \/ LoopWakeTimeout(l)
    \/ \E c \in Callers : StopResume(c)
    \/ \E c \in Callers : StopBegin(c) /\ lastCall' = "stop_done"

\* C11: a _flush() that finds the buffer empty creates no batch and no
\* dispatch task (so the analyzer is not called for it), leaves the counters,
\* the gauge and the permits as they were and the buffer empty; the one thing
\* it does is clear the flush event.
C11_EmptyFlushNoop ==
    [][(FlushStep /\ buffer = <<>>) =>
          /\ buffer' = <<>>
          /\ tasks' = tasks
          /\ AI_CALLS' = AI_CALLS
          /\ AI_ERRORS' = AI_ERRORS
          /\ QUEQUE_SIZE' = QUEQUE_SIZE
          /\ sem_value' = sem_value
          /\ flush_event' = FALSE]_vars

\* a loop has flushed (it is in its sleep) while nothing was ever enqueued
C11_Witness ==
    /\ accepted = 0
    /\ tasks = <<>>
    /\ AI_CALLS = 0
    /\ \E l \in DOMAIN loops : loops[l].pc = "sleep"

(* ------------------------------- C12 ---------------------------------- *)
\* C12: batch_size is the largest number of items of a flush: every batch
\* handed to a dispatch task holds at most batch_size items.
C12_BatchAtMostBatchSize ==
    \A t \in DOMAIN tasks : Len(tasks[t].batch) <= batch_size

StopReturnedAfterLoop(c) ==
    IF stopPc[c] = "idle" /\ stopAwait[c] \in DOMAIN loops
    THEN loops[stopAwait[c]].pc = "done"
    ELSE FALSE

\* C14: stop() is prompt. Wherever the loop is when stop() is called (not
\* yet run, waiting for the event or the timer, in its sleep), stop() leaves
\* no loop waiting for the timer, the loop ends and stop() returns; no
\* timeout of wait_for is needed for that (the specification gives the timer
\* no fairness).
C14_StopPrompt ==
    /\ [][\A c \in Callers :
             (stopPc[c] = "idle" /\ stopPc'[c] = "await_loop") =>
                 \A l \in DOMAIN loops' : loops'[l].pc = "wait" => loops'[l].woken]_vars
    /\ \A c \in Callers :
          (stopPc[c] = "await_loop") ~> StopReturnedAfterLoop(c)

\* stop() found the loop waiting for event or timer, and has returned after
\* the loop ended; no batch was ever flushed by the timer
C14_Witness ==
    /\ lastCall = "stop_done"
    /\ stopAwait["owner"] # 0
    /\ loops[stopAwait["owner"]].pc = "done"
    /\ tasks # <<>>
    /\ \A t \in DOMAIN tasks : tasks[t].by # "timeout"

(* ------------------------------- C15 ---------------------------------- *)
\* C15: a classification attempt whose external bulk request failed counts
\* as a failed attempt of the batch: the batch is retried, and a batch that
\* ends on such an attempt is a terminal failure after MaxAttempts calls,
\* counted in AI_ERRORS.
C15_ExternalFailureRetried ==
    \A t \in DOMAIN tasks :
        (tasks[t].ext = "failed" /\ tasks[t].pc = "done") =>
            /\ tasks[t].out = "error"
            /\ tasks[t].calls = MaxAttempts
            /\ AI_ERRORS >= 1

(* ------------------------------- C16 ---------------------------------- *)
\* the dispatch tasks cancelled during a back-off wait
CancelledInBackoff == {t \in DOMAIN tasks : tasks[t].at = "backoff"}

\* C16 as stated: a dispatch task cancelled in its back-off wait ends as a
\* terminal error, recorded like a batch that failed all its attempts.
C16_CancelRecordedAsError ==
    \A t \in CancelledInBackoff : tasks[t].out = "error" /\ AI_ERRORS >= 1

\* C16, amended: a dispatch task cancelled in its back-off wait ends at once
\* with the permit given back and no further classification call, and the
\* CancelledError leaves the task uncaught: the task ends as cancelled and
\* AI_ERRORS counts only the batches that failed all their attempts.
C16_CancelInBackoff ==
    /\ [](\A t \in CancelledInBackoff :
             tasks[t].pc = "done" /\ tasks[t].out = "cancelled")
    /\ [](AI_ERRORS = Cardinality(Errored))
    /\ [](sem_value + Cardinality(InFlight) = max_concurrency)
    /\ [][\A t \in DOMAIN tasks :
             (tasks[t].pc = "backoff" /\ tasks'[t].at = "backoff") =>
                 /\ tasks'[t].pc = "done"
                 /\ tasks'[t].calls = tasks[t].calls
                 /\ sem_value' = sem_value + 1
                 /\ AI_ERRORS' = AI_ERRORS]_vars
    /\ [][\A t \in DOMAIN tasks : tasks[t].pc = "done" => tasks'[t] = tasks[t]]_vars

\* a task was cancelled in the wait after its second failed attempt, every
\* permit is free again and no error was counted
C16_Witness ==
    /\ \E t \in CancelledInBackoff : tasks[t].calls = 2 /\ tasks[t].fails = 2
    /\ sem_value = max_concurrency
    /\ AI_ERRORS = 0

(* ------------------------------- C17 ---------------------------------- *)
\* C17: a CancelledError raised into run_ai_analysis_batch, during the first
\* pass or during the external call, ends the call by being re-raised: the
\* call never returns a result list (with or without error outcomes) after it.
C17_CancellationPropagated ==
    a_cancel # "none" => a_pc = "cancelled"

\* the call was cancelled while the external request was under way
C17_Witness ==
    /\ a_cancel = "external"
    /\ a_pc = "cancelled"
    /\ ext_calls = 1

(* ------------------------------- C18 ---------------------------------- *)
\* item ids are handed out in the order of the enqueue() calls
Increasing(s) == \A i, j \in DOMAIN s : i < j => s[i] < s[j]

\* C18: the buffer and every batch hold their items in the order of the
\* enqueue() calls; and the list run_ai_analysis_batch returns has one entry
\* per item of the batch, entry i being the heuristic result of item i when
\* the heuristic settles it and otherwise the external output made for item
\* i (its device_id), or the None placeholder when the answer of the external
\* model was too short to reach it.
C18_OrderPreserved ==
    /\ Increasing(buffer)
    /\ \A t \in DOMAIN tasks : Increasing(tasks[t].batch)
    /\ a_pc = "returned" =>
          /\ Len(a_results) = Len(a_batch)
          /\ \A i \in DOMAIN a_batch :
                LET osnr == a_batch[i].osnr
                    ber == a_batch[i].ber
                IN  IF osnr.has /\ ber.has /\ osnr.v >= OsnrLimit /\ ber.v <= BerLimit
                    THEN a_results[i].kind = "heuristic" /\ a_results[i].status = "healthy"
                    ELSE \/ a_results[i].kind = "None"
                         \/ /\ a_results[i].kind \in {"ai_output", "message", "error"}
                            /\ a_results[i].device_id = a_batch[i].device_id

\* a batch of a healthy item followed by an open one: the result list holds
\* the heuristic result first and the external output for item 2 second
C18_Witness ==
    /\ a_pc = "returned"
    /\ Len(a_batch) = 2
    /\ a_results[1].kind = "heuristic"
    /\ a_results[2].kind = "ai_output"
    /\ a_results[2].device_id = 2

(* ------------------------------- C19 ---------------------------------- *)
\* the first pass of the call is over
FirstPassDone == a_pc \in {"external", "returned"} \/ a_cancel = "external"

\* C19: run_ai_analysis answers healthy exactly for the records that have
\* both metrics (key present, value not None) with osnr not below 30 and ber
\* not above 1e-9, both limits included; every other record, one with a
\* missing metric too, is answered needs_ai. (BER counts units of 1e-10:
\* 10 is 1e-9.)
C19_HealthyExactlyWhen ==
    FirstPassDone =>
        \A i \in DOMAIN a_batch :
            LET osnr == a_batch[i].osnr
                ber == a_batch[i].ber
            IN  /\ (i \notin Range(ai_indices)) <=>
                      (osnr # None /\ ber # None /\ ~(osnr.v < 30) /\ ~(ber.v > 10))
                /\ (i \in Range(ai_indices)) <=>
                      (osnr = None \/ ber = None \/ osnr.v < 30 \/ ber.v > 10)
                /\ (i \notin Range(ai_indices) /\ a_pc = "external") =>
                      a_results[i].status = "healthy"

\* a record with both metrics exactly on their limits was answered healthy,
\* next to a record without osnr that was left for the external model
C19_Witness ==
    /\ a_pc = "external"
    /\ Len(a_batch) = 2
    /\ a_batch[1].osnr = Some(OsnrLimit)
    /\ a_batch[1].ber = Some(BerLimit)
    /\ a_results[1].status = "healthy"
    /\ a_batch[2].osnr = None
    /\ ai_indices = <<2>>

(* ------------------------------- C20 ---------------------------------- *)
\* every item of the batch is healthy for the heuristic (true of the empty batch)
AllHealthy == \A i \in DOMAIN a_batch : RunAiAnalysis(a_batch[i]).status = "healthy"

\* C20: called on a batch whose items are all healthy for the heuristic, the
\* empty batch included, run_ai_analysis_batch never calls
\* _call_external_ai_for_batch and, unless cancelled, returns at its first
\* step a list with one healthy heuristic result per item.
C20_AllHealthyNoExternalCall ==
    AllHealthy =>
        /\ ext_calls = 0
        /\ a_pc \in {"idle", "returned", "cancelled"}
        /\ a_pc = "cancelled" => a_cancel = "heuristic"
        /\ a_pc = "returned" =>
              /\ Len(a_results) = Len(a_batch)
              /\ \A i \in DOMAIN a_batch :
                    a_results[i] = HeuristicResult([status |-> "healthy"])

\* the call returned two healthy results for a batch of two healthy records
\* without an external call
C20_Witness ==
    /\ a_pc = "returned"
    /\ Len(a_batch) = 2
    /\ AllHealthy
    /\ ext_calls = 0
    /\ \A i \in DOMAIN a_results : a_results[i].status = "healthy"

(* ------------------------------- C21 ---------------------------------- *)
\* the heuristic leaves this record open
Unresolved(record) == RunAiAnalysis(record).status = "needs_ai"

\* the positions of the open items of the batch, in ascending order
RECURSIVE OpenPositions(_, _)
OpenPositions(batch, i) ==
    IF i > Len(batch) THEN <<>>
    ELSE (IF Unresolved(batch[i]) THEN <<i>> ELSE <<>>) \o OpenPositions(batch, i + 1)

\* C21: for a batch with an open item, once the first pass is over exactly
\* one call of _call_external_ai_for_batch has been made, with the open
\* items of the batch in their order in the batch and nothing else; when
\* the call has returned, a healthy item has its heuristic result at its
\* position, and output j of the external call (present when the answer
\* reaches that far) sits at the position of the j-th open item.
C21_OneExternalCallOnResidual ==
    (FirstPassDone /\ ~AllHealthy) =>
        LET open == OpenPositions(a_batch, 1)
        IN  /\ ext_calls = 1
            /\ ai_indices = open
            /\ ai_needed = [j \in DOMAIN open |-> a_batch[open[j]]]
            /\ a_pc = "returned" =>
                  /\ \A i \in DOMAIN a_batch :
                        ~Unresolved(a_batch[i]) =>
                            a_results[i] = HeuristicResult([status |-> "healthy"])
                  /\ \A j \in DOMAIN open :
                        \/ a_results[open[j]] = NoneResult
                        \/ /\ a_results[open[j]].device_id = ai_needed[j].device_id
                           /\ a_results[open[j]].n \in {0, j}

\* a batch of two open items, both answered by the one external call: the
\* second output sits at position 2
C21_Witness ==
    /\ a_pc = "returned"
    /\ Len(a_batch) = 2
    /\ ai_indices = <<1, 2>>
    /\ ext_calls = 1
    /\ a_results[2].kind = "ai_output"
    /\ a_results[2].n = 2

(* ------------------------------- C22 ---------------------------------- *)
\* C22: when the answer of the external model is no JSON list and is split
\* into lines, the call returns one outcome per open item however many
\* lines the answer has: no position of the returned list is left at None.
C22_ResultPerItemOnLineFallback ==
    (a_pc = "returned" /\ a_answer = "lines") =>
        /\ Len(a_results) = Len(a_batch)
        /\ \A i \in DOMAIN a_results : a_results[i] # NoneResult

(* ------------------------------- C23 ---------------------------------- *)
\* C23: when the external request raised an Exception the call of
\* _call_external_ai_for_batch raises nothing: run_ai_analysis_batch returns,
\* and every open item has an outcome with status "error", its own device_id
\* and the exception as message; the healthy items keep their result.
C23_UniformErrorsOnFailure ==
    a_answer = "raised" =>
        /\ a_pc = "returned"
        /\ Len(a_results) = Len(a_batch)
        /\ \A i \in DOMAIN a_batch :
              IF Unresolved(a_batch[i])
              THEN /\ a_results[i].status = "error"
                   /\ a_results[i].device_id = a_batch[i].device_id
                   /\ a_results[i].message \in Failures
              ELSE a_results[i] = HeuristicResult([status |-> "healthy"])
        /\ Cardinality({i \in DOMAIN a_results : a_results[i].status = "error"})
              = Len(ai_needed)

\* the request for two open items timed out: two error outcomes
C23_Witness ==
    /\ a_answer = "raised"
    /\ Len(ai_needed) = 2
    /\ a_results[1].status = "error"
    /\ a_results[2].status = "error"
    /\ a_results[2].message = "timeout"

(* ------------------------------- C24 ---------------------------------- *)
\* C24: the TelemetryQueue is first in, first out: the packets dequeue()
\* has returned, followed by those still queued, are the packets enqueued,
\* in order. size() is the number of enqueue() calls minus the number of
\* dequeue() calls that returned a packet, and isEmpty() holds exactly when
\* size() is 0. dequeue() can always be called and is one step; on an empty
\* queue it returns None and changes nothing.
C24_QueueFifo ==
    /\ [](q_out \o q_items = q_in)
    /\ [](Size = Len(q_in) - Len(q_out))
    /\ [](IsEmpty <=> Size = 0)
    /\ [](ENABLED QDequeue)
    /\ [][(QDequeue /\ q_items = <<>>) =>
             /\ last_ret' = "None"
             /\ UNCHANGED <<q_items, q_in, q_out>>]_vars
    /\ [][(QDequeue /\ q_items # <<>>) =>
             /\ last_ret' = q_in[Len(q_out) + 1]
             /\ Len(q_items') = Len(q_items) - 1]_vars

\* two different packets were dequeued in the order of their enqueue while a
\* third is still queued, and a dequeue on the emptied queue returned None
C24_Witness ==
    /\ q_in = <<"p1", "p2", "p1">>
    /\ q_out = <<"p1", "p2">>
    /\ q_items = <<"p1">>
    /\ last_op = "dequeue"
    /\ last_ret = "p2"

(* ------------------------------- C25 ---------------------------------- *)
\* C25: after clear(), called on the queue or through DELETE /queue/clear,
\* the call has completed without error (the route answers 200), size() is
\* 0 and the queue is empty, whatever it held.
C25_ClearEmptiesQueue ==
    last_op \in {"clear", "clear_queue"} =>
        /\ last_ret \in {"none", "200"}
        /\ Size = 0
        /\ q_items = <<>>

(* ------------------------------- C26 ---------------------------------- *)
\* C26: POST /ingest/batch hands every record to the queue and to
\* AIBatcher.enqueue: the number of enqueue() calls the batcher has seen is
\* the number of records ingested, which is the count the responses report.
C26_IngestFeedsBatcher ==
    last_op = "ingest_batch" =>
        /\ last_ret = "200"
        /\ accepted = r_count
        /\ Len(q_in) >= r_count

(* ------------------------------- C27 ---------------------------------- *)
\* number of positions of the sequence s that hold item i
Occurrences(s, i) == Cardinality({k \in DOMAIN s : s[k] = i})

\* number of positions, in the buffer and in all batches, that hold item i
Places(i) ==
    Occurrences(buffer, i)
      + Cardinality({<<t, k>> \in (DOMAIN tasks) \X (1..accepted) :
                        k \in DOMAIN tasks[t].batch /\ tasks[t].batch[k] = i})

\* C27: a _flush() of a non-empty buffer is one step that makes exactly one
\* new dispatch task, waiting for a permit, whose batch is the whole buffer,
\* leaves the buffer empty and touches no other task; no step both accepts
\* an item and flushes, so an item accepted around a flush is either in the
\* flushed batch or in the new buffer; and every accepted item is at exactly
\* one position of the buffer or of one batch.
C27_FlushAtomicSwap ==
    /\ [](\A i \in 1..accepted : Places(i) = 1)
    /\ [][(FlushStep /\ buffer # <<>>) =>
             /\ buffer' = <<>>
             /\ Len(tasks') = Len(tasks) + 1
             /\ tasks'[Len(tasks')].batch = buffer
             /\ tasks'[Len(tasks')].pc = "pending"
             /\ \A t \in DOMAIN tasks : tasks'[t] = tasks[t]]_vars
    /\ [][accepted' # accepted =>
             (tasks' = tasks /\ buffer' = Append(buffer, accepted'))]_vars
    /\ [][tasks' # tasks => accepted' = accepted]_vars

\* with batch_size 2, item 1 sits in a batch that was flushed by the timer
\* and is in flight, item 2 was accepted after that flush and is buffered
C27_Witness ==
    /\ batch_size = 2
    /\ buffer = <<2>>
    /\ \E t \in DOMAIN tasks :
          tasks[t].batch = <<1>> /\ tasks[t].by = "timeout" /\ tasks[t].pc = "calling"

(* ------------------------------- C28 ---------------------------------- *)
\* the batches that wait for a permit, are in a classification call or in a
\* retry wait
Unfinished == {t \in DOMAIN tasks : tasks[t].pc # "done"}

\* C28: whenever a batch waits for a permit, is in a classification call or
\* in a retry wait, the buffer lock is free: it was released before the
\* dispatch task of the batch was created, and no dispatch task takes it.
\* So enqueue() can be called and a loop whose wait ends can flush while
\* batches are in flight.
C28_LockNotHeldAcrossDispatch ==
    /\ [](Unfinished # {} => ~buffer_lock)
    /\ []((Unfinished # {} /\ accepted < MaxAccepts) => ENABLED Enqueue)
    /\ [](\A l \in DOMAIN loops :
             (Unfinished # {} /\ loops[l].pc = "wait" /\ ~loops[l].woken)
                 => ENABLED LoopWakeTimeout(l))
    /\ [][FlushStep => ~buffer_lock']_vars

\* a second batch was flushed while the first was in its retry wait
C28_Witness ==
    /\ Len(tasks) = 2
    /\ tasks[1].pc = "backoff"
    /\ tasks[2].pc = "pending"
    /\ tasks[2].by = "timeout"
    /\ ~buffer_lock

(* ------------------------------- C29 ---------------------------------- *)
\* C29: a batch is an immutable snapshot. No step (accept, flush, loop,
\* dispatch, retry, start, stop) changes the items of a batch that was
\* already flushed, the arguments of the calls already made stay as they
\* were, and every classification call of a batch, the first and each
\* retry, receives the item sequence taken at flush time.
C29_BatchImmutableSnapshot ==
    /\ [][\A t \in DOMAIN tasks :
             /\ t \in DOMAIN tasks'
             /\ tasks'[t].batch = tasks[t].batch
             /\ \A k \in DOMAIN tasks[t].sent :
                    /\ k \in DOMAIN tasks'[t].sent
                    /\ tasks'[t].sent[k] = tasks[t].sent[k]]_vars
    /\ [](\A t \in DOMAIN tasks :
             /\ Len(tasks[t].sent) = tasks[t].calls
             /\ \A k \in DOMAIN tasks[t].sent : tasks[t].sent[k] = tasks[t].batch)

\* the first batch was flushed with item 1 alone, item 2 was accepted and
\* flushed after it, and the first batch is in its third attempt
C29_Witness ==
    /\ Len(tasks) = 2
    /\ tasks[1].batch = <<1>>
    /\ tasks[2].batch = <<2>>
    /\ tasks[1].sent = <<(<<1>>), (<<1>>), (<<1>>)>>
    /\ tasks[1].pc = "calling"

(* ------------------------------- C30 ---------------------------------- *)
\* C30: _running is written only by start() and stop(). A step that changes
\* it is a start() or the first part of a stop(); enqueue(), the steps of
\* the flush loop with their flushes, the final flush of stop(), the start
\* of a dispatch, a successful call, a failed call (retried or terminal)
\* and the end of a retry wait leave it as it was.
C30_RunningWrittenByStartStop ==
    /\ [][running' # running
             => \E c \in Callers : Start(c) \/ StopBegin(c)]_vars
    /\ [][(\/ Enqueue
           \/ \E c \in Callers : StopResume(c)
           \/ \E l \in DOMAIN loops :
                  LoopHead(l) \/ LoopWakeSignal(l) \/ LoopWakeTimeout(l)
           \/ \E t \in DOMAIN tasks :
                  DispatchStart(t) \/ CallReturns(t) \/ CallRaises(t) \/ BackoffDone(t))
             => running' = running]_vars

\* the batcher is running after a start(), and has accepted, flushed on a
\* timeout, dispatched, retried and given up on a batch
C30_Witness ==
    /\ running
    /\ lastCall = "start"
    /\ accepted = MaxAccepts
    /\ \E t \in DOMAIN tasks : tasks[t].out = "error" /\ tasks[t].calls = MaxAttempts
    /\ \E t \in DOMAIN tasks : tasks[t].by = "timeout"

(* ------------------------------- C31 ---------------------------------- *)
\* the attempt numbers the schedule is evaluated for
MaxAttemptNo == 6

C32_LifespanOrdering ==
    /\ [][ls_task' # ls_task
             => (running /\ lastCall = "start" /\ PIPELINE_RUNNING)]_vars
    /\ [](ls_task # 0 => lastCall # "none")
    /\ [][(running /\ ~running')
             => /\ ls_pc = "stopping"
                /\ last_set = <<FALSE>>
                /\ ~PIPELINE_RUNNING
                /\ pipelines[ls_task].pc = "done"]_vars
    /\ []((ls_pc = "awaiting" /\ pipelines[ls_task].pc = "done")
             => ENABLED LifespanAwaitReturns)
    /\ []((ls_pc = "stopping" /\ lastCall = "start") => ENABLED LifespanStopBatcher)
    /\ []((ls_pc = "stopping" /\ lastCall \notin {"start", "stop_done"})
             => (lastCall = "stop_wait" /\ stopPc["owner"] = "await_loop"))
    /\ [](ls_pc = "closed" => (lastCall = "stop_done" /\ ~running))

\* lifespan() has returned after the pipeline task ended with an exception
C32_Witness ==
    /\ ls_pc = "closed"
    /\ pipelines[ls_task].out = "exception"
    /\ lastCall = "stop_done"
    /\ ~running

(* ------------------------------- C33 ---------------------------------- *)
\* C33: the loop of telemetry_pipeline follows the pipeline state. At its
\* loop head a task goes on to fetch when the state is true and ends
\* normally when it is false; once the state stays false, every pipeline
\* task ends. An empty fetch or an exception of the fetch begins no POST,
\* an exception of the POST posts no batch, and in all three cases the task
\* goes on to its sleep and to the next loop head. is_pipeline_running()
\* is the argument of the last set_pipeline_state call.
C33_LoopFollowsState ==
    /\ [][\A p \in DOMAIN pipelines :
             PipelineHead(p)
                => IF PIPELINE_RUNNING
                   THEN pipelines'[p].pc = "fetch"
                   ELSE pipelines'[p].pc = "done" /\ pipelines'[p].out = "normal"]_vars
    /\ [](\A p \in DOMAIN pipelines :
             (pipelines[p].pc \in {"new", "sleep"} /\ ~pipelines[p].cancel
                 /\ ~PIPELINE_RUNNING) => ENABLED PipelineHead(p))
    /\ (<>[](~PIPELINE_RUNNING) => <>[](AlivePipelines = {}))
    /\ [][\A p \in DOMAIN pipelines :
             (FetchEmpty(p) \/ FetchRaises(p) \/ PostRaises(p))
                => /\ pipelines'[p].pc = "sleep"
                   /\ pipelines'[p].posts = pipelines[p].posts
                   /\ pipelines'[p].reqs = pipelines[p].reqs]_vars
    /\ [](last_set # <<>> => last_set = <<is_pipeline_running>>)

\* a task whose first iteration ended with a fetch error is in its second
\* iteration, and another task has ended at its loop head
C33_Witness ==
    /\ \E p \in DOMAIN pipelines :
          /\ pipelines[p].last = "fetch_error"
          /\ pipelines[p].fetches = 2
          /\ pipelines[p].pc = "fetch"
    /\ \E p \in DOMAIN pipelines : pipelines[p].out = "normal"

(* ------------------------------- C39 ---------------------------------- *)
\* C39: at most one telemetry_pipeline task is inside its loop (fetching,
\* posting or sleeping between iterations) in every reachable state.
C39_OnePipelineIterating == Cardinality(Iterating) <= 1

(* ------------------------------- C34 ---------------------------------- *)
\* C34: enqueue() on a stopped batcher (never started, or stopped by a
\* stop() that has returned) is possible and appends the item to the
\* buffer. No step from a stopped state creates a batch, so the item stays
\* in the buffer and in no batch while the batcher is stopped. Once the
\* batcher runs again the item gets into a batch that is handed to
\* run_ai_analysis_batch, and it is never in more than one batch.
C34_AcceptWhileStopped ==
    /\ []((Stopped /\ accepted < MaxAccepts) => ENABLED Enqueue)
    /\ [][accepted' # accepted
             => /\ Stopped
                /\ buffer' = Append(buffer, accepted + 1)
                /\ tasks' = tasks
                /\ running' = running]_vars
    /\ [][Stopped => (Len(tasks') = Len(tasks) /\ Len(buffer') >= Len(buffer))]_vars
    /\ [](\A i \in 1..accepted : Cardinality(BatchesWith(i)) <= 1)
    /\ [](\A i \in 1..accepted :
             Cardinality(BatchesWith(i)) = IF InBuffer(i) THEN 0 ELSE 1)
    /\ \A i \in 1..MaxAccepts :
           (running /\ InBuffer(i))
              ~> (\E t \in DOMAIN tasks : i \in Range(tasks[t].batch) /\ Submitted(t))

\* item 1 was accepted before the first start() and flushed by the loop
\* after it; item 2 was accepted after stop() returned and is buffered
C34_Witness ==
    /\ Stopped
    /\ lastCall = "stop_done"
    /\ Len(tasks) = 1
    /\ tasks[1].batch = <<1>>
    /\ tasks[1].by \in {"signal", "timeout"}
    /\ Submitted(1)
    /\ buffer = <<2>>

(* ------------------------------- C35 ---------------------------------- *)
\* C35: with start() and stop() called by different callers in any
\* interleaving, at most one _batch_loop task is alive in every reachable
\* state, and every stop() that waits for the loop returns.
C35_OneLoopAndStopReturns ==
    /\ [](Cardinality(AliveLoops) <= 1)
    /\ \A c \in Callers : (stopPc[c] = "await_loop") ~> (stopPc[c] = "idle")

(* ------------------------------- C36 ---------------------------------- *)
\* C36: stop() does not wait for dispatch. Once the awaited loop task is
\* done stop() can go on whatever the dispatch tasks are doing; the step in
\* which it returns creates the drain batch (if the buffer holds items) as
\* a task that still waits for a permit, and moves no other dispatch task.
C36_StopDoesNotAwaitDispatch ==
    /\ [](\A c \in Callers :
             (stopPc[c] = "await_loop" /\ loops[stopAwait[c]].pc = "done")
                => ENABLED StopResume(c))
    /\ [][lastCall' = "stop_done" /\ (\E c \in Callers : StopResume(c) \/ StopBegin(c))
             => /\ \A t \in DOMAIN tasks : tasks'[t] = tasks[t]
                /\ Len(tasks') = Len(tasks) + (IF buffer = <<>> THEN 0 ELSE 1)
                /\ buffer # <<>>
                      => /\ tasks'[Len(tasks')].pc = "pending"
                         /\ tasks'[Len(tasks')].by = "stop"
                         /\ tasks'[Len(tasks')].calls = 0]_vars

\* stop() has returned; the drain batch waits for a permit and an earlier
\* batch is in a retry wait
C36_Witness ==
    /\ Stopped
    /\ lastCall = "stop_done"
    /\ Len(tasks) = 2
    /\ tasks[1].pc = "backoff"
    /\ tasks[2].by = "stop"
    /\ tasks[2].pc = "pending"

(* ------------------------------- C37 ---------------------------------- *)
\* the batches that hold a permit: in a classification call or in the wait
\* between two attempts
Holders == {t \in DOMAIN tasks : tasks[t].pc \in {"calling", "backoff"}}

\* C37: a batch holds one permit from its first attempt until its outcome,
\* the waits between attempts included: the free permits are always
\* max_concurrency minus the batches in a call or in a retry wait, and a
\* batch that ended (success, terminal failure, cancellation) holds none.
\* With max_concurrency 1, while a batch is between its first attempt and
\* its outcome no call is made for any other batch.
C37_PermitHeldAcrossRetries ==
    /\ [](sem_value = max_concurrency - Cardinality(Holders))
    /\ [](Cardinality(Holders) <= max_concurrency)
    /\ [][\A t \in Holders : \A u \in DOMAIN tasks :
             (max_concurrency = 1 /\ u # t)
                => (tasks'[u].calls = tasks[u].calls /\ tasks'[u].pc # "calling")]_vars
    /\ [][\A t \in Holders :
             tasks'[t].pc = "done"
                => (sem_value' = sem_value + 1
                    /\ tasks'[t].out \in {"success", "error", "cancelled"})]_vars

\* one permit: the first batch was cancelled in the wait after its second
\* attempt, and the second batch got the permit and is in its first call
C37_Witness ==
    /\ max_concurrency = 1
    /\ Len(tasks) = 2
    /\ tasks[1].out = "cancelled"
    /\ tasks[1].at = "backoff"
    /\ tasks[1].calls = 2
    /\ tasks[2].pc = "calling"
    /\ sem_value = 0

(* ------------------------------- C38 ---------------------------------- *)
\* C38: no flush signal is lost. Whenever the buffer holds batch_size items
\* or more the flush event is set, and a step that clears the event (a
\* flush by the loop, by stop() or by a direct call) leaves the buffer
\* empty; start() and stop() never clear it.
C38_NoLostFlushSignal ==
    /\ [](Len(buffer) >= batch_size => flush_event)
    /\ [][(flush_event /\ ~flush_event') => buffer' = <<>>]_vars
    /\ [][(\E c \in Callers : Start(c)) => flush_event' = flush_event]_vars
    /\ [][(flush_event /\ \E c \in Callers : StopBegin(c))
             => (flush_event' \/ buffer' = <<>>)]_vars

\* batch_size 1: a direct flush took item 1 and cleared the event, then
\* item 2 was accepted and set it again
C38_Witness ==
    /\ batch_size = 1
    /\ Len(tasks) = 1
    /\ tasks[1].by = "direct"
    /\ tasks[1].batch = <<1>>
    /\ buffer = <<2>>
    /\ flush_event

(* ------------------------------- C40 ---------------------------------- *)
\* the batches whose first attempt has begun
Dispatched == {t \in DOMAIN tasks : tasks[t].calls >= 1}

\* C40: the counters count batches, not attempts. ai_calls_total is the
\* number of batches whose first attempt has begun, whatever the number of
\* their attempts; ai_errors_total is the number of batches that ended
\* with an error, which are the batches all of whose 3 attempts failed.
\* So ai_errors_total <= ai_calls_total <= number of batches flushed. A
\* step changes either counter by at most one.
C40_CountersPerBatch ==
    /\ [](AI_CALLS = Cardinality(Dispatched))
    /\ [](AI_ERRORS = Cardinality({t \in DOMAIN tasks : tasks[t].out = "error"}))
    /\ [](\A t \in DOMAIN tasks :
             tasks[t].out = "error" <=> tasks[t].fails = MaxAttempts)
    /\ [](AI_ERRORS <= AI_CALLS /\ AI_CALLS <= Len(tasks))
    /\ [][AI_CALLS' \in {AI_CALLS, AI_CALLS + 1}
             /\ AI_ERRORS' \in {AI_ERRORS, AI_ERRORS + 1}]_vars
    /\ [][\A t \in Dispatched :
             (tasks'[t].calls > tasks[t].calls) => AI_CALLS' = AI_CALLS]_vars

\* two batches, five attempts: one batch failed three times, the other
\* succeeded at its second attempt
C40_Witness ==
    /\ Len(tasks) = 2
    /\ AI_CALLS = 2
    /\ AI_ERRORS = 1
    /\ \E t \in DOMAIN tasks : tasks[t].out = "error" /\ tasks[t].calls = 3
    /\ \E t \in DOMAIN tasks : tasks[t].out = "success" /\ tasks[t].calls = 2

=============================================================================
